---- MODULE Spec2Model ----
(***************************************************************************)
(* A model of AI-DocProof: the sentence segmentation and annotation of     *)
(* DocProcessor (src/src/doc_processor.py), the classifier client          *)
(* ApiClient.proofread_sentence (src/src/api_client.py) and the worker     *)
(* ProofreadWorker.run (src/src/gui/main_window.py).                       *)
(*                                                                         *)
(* A text is a sequence of characters, a character a one-element string.   *)
(* Characters outside ASCII are written by name: "fw_stop" is U+3002,      *)
(* "fw_q" is U+FF1F, "fw_bang" is U+FF01, and the names in HanChars are    *)
(* CJK ideographs.  Offsets are 0-based as in Python: the character at     *)
(* offset k of text t is t[k + 1].                                         *)
(***************************************************************************)
EXTENDS Integers, Sequences, FiniteSets, TLC

VARIABLES
    \* ---- segmentation of one paragraph text (SegSpec)
    text,               \* the paragraph text being segmented
    paraScan,           \* the scan loop of lines 113-160 (top-level paragraphs)
    tableScan,          \* the scan loop of lines 171-214 (table cell paragraphs)
    \* ---- one DocProcessor driven through its methods (Spec)
    docFile,            \* the file at file_path: whether it opens, and its document
    doc_processor,      \* the DocProcessor object: document, sentences, sentence_positions
    phase,              \* how far the caller is: new, loaded, split, saved, failed
    calls,              \* the add_comment calls made so far, in order, with their results
    ret,                \* the value returned by the last method call
    outFiles,           \* the files save_document has written, by output path
    \* ---- one ProofreadWorker thread and the window that may stop it (WorkerSpec)
    worker,             \* the thread: where run() is, is_running, i, success, result
    response,           \* what the classifier service answered to the last request
    log_manager,        \* the LogManager object: logs, error_count, total_count, ...
    signals,            \* the Qt signals the worker has emitted, in order
    events,             \* the calls the worker has made and the stop() calls, in order
    \* ---- the MainWindow, its worker threads and its event queue (WindowSpec)
    window,             \* the MainWindow object: flags, buttons, open modal dialogs
    threads,            \* the ProofreadWorker threads started so far, in order
    queue,              \* the finished signals queued for the GUI thread, by thread
    exports             \* the export_logs calls so far: after which run, which threads wrote

segVars == <<text, paraScan, tableScan>>
docVars == <<docFile, doc_processor, phase, calls, ret, outFiles>>
workerVars == <<worker, response, log_manager, signals, events>>
winVars == <<window, threads, queue, exports>>

-----------------------------------------------------------------------------
(* Characters and character classes (Python 3 str patterns are Unicode).    *)

FwStop == "fw_stop"
FwQuestion == "fw_q"
FwBang == "fw_bang"

HanChars ==
    {"han_ni", "han_hao", "han_jin", "han_tian", "han_qi", "han_bu", "han_cuo",
     "han_jia", "han_ge", "han_shi", "han_yuan",
     "han_jiao", "han_dui", "han_jian", "han_yi"}

Digits == {"0", "1", "2", "3", "4", "5", "6", "7", "8", "9"}

UpperLetters ==
    {"A", "B", "C", "D", "E", "F", "G", "H", "I", "J", "K", "L", "M",
     "N", "O", "P", "Q", "R", "S", "T", "U", "V", "W", "X", "Y", "Z"}

LowerLetters ==
    {"a", "b", "c", "d", "e", "f", "g", "h", "i", "j", "k", "l", "m",
     "n", "o", "p", "q", "r", "s", "t", "u", "v", "w", "x", "y", "z"}

\* \s of a str pattern, and the characters str.strip() removes
IsSpace(c) == c \in {" ", "\n", "\t", "\r", "\f"}

\* the class ["\'\'\'"] of sentence_end_pattern
IsQuote(c) == c \in {"\"", "'"}

IsDigit(c) == c \in Digits

IsUpper(c) == c \in UpperLetters

IsAlpha(c) == c \in UpperLetters \cup LowerLetters

\* \w: letters of any script, digits and the underscore
IsWord(c) == c \in UpperLetters \cup LowerLetters \cup Digits \cup HanChars \cup {"_"}

-----------------------------------------------------------------------------
(* Python string operations.                                                *)

\* text[a:b] for 0 <= a, b <= len(text)
Slice(t, a, b) == IF b <= a THEN << >> ELSE SubSeq(t, a + 1, b)

\* str.strip(): the text between its first and its last non-space character
Strip(t) ==
    LET inked == {k \in 1..Len(t) : ~IsSpace(t[k])} IN
    IF inked = {} THEN << >>
    ELSE SubSeq(t, CHOOSE a \in inked : \A k \in inked : a <= k,
                   CHOOSE b \in inked : \A k \in inked : k <= b)

\* str.endswith(c) for a one-character c
EndsWith(t, c) == t # << >> /\ t[Len(t)] = c

\* needle in haystack, for strings
Contains(hay, needle) ==
    \E a \in 0..(Len(hay) - Len(needle)) : Slice(hay, a, a + Len(needle)) = needle

-----------------------------------------------------------------------------
(* sentence_end_pattern:                                                    *)
(*   (fw_stop fw_q fw_bang|\.[\s\n]|\?|!)["\'\'\'"]?(?=$|[\s\n])            *)
(* The first alternative is the three characters in a row, not a class.     *)

\* the lookahead (?=$|[\s\n]) at offset p: $ also matches before a final
\* newline, which [\s\n] covers
LookAhead(t, p) == p = Len(t) \/ (p < Len(t) /\ IsSpace(t[p + 1]))

\* GroupEnd with a fault: the group is optional, it matches the empty string
\* where no alternative matches
GroupEndOptional(t, s) ==
    CASE s + 3 <= Len(t) /\ t[s + 1] = FwStop /\ t[s + 2] = FwQuestion
                         /\ t[s + 3] = FwBang -> s + 3
      [] s + 2 <= Len(t) /\ t[s + 1] = "." /\ IsSpace(t[s + 2]) -> s + 2
      [] s + 1 <= Len(t) /\ t[s + 1] = "?" -> s + 1
      [] s + 1 <= Len(t) /\ t[s + 1] = "!" -> s + 1
      [] OTHER -> s

\* the offset after the group (...) matched at offset s, -1 when it does not match
GroupEnd(t, s) ==
    CASE s + 3 <= Len(t) /\ t[s + 1] = FwStop /\ t[s + 2] = FwQuestion
                         /\ t[s + 3] = FwBang -> s + 3
      [] s + 2 <= Len(t) /\ t[s + 1] = "." /\ IsSpace(t[s + 2]) -> s + 2
      [] s + 1 <= Len(t) /\ t[s + 1] = "?" -> s + 1
      [] s + 1 <= Len(t) /\ t[s + 1] = "!" -> s + 1
      [] OTHER -> -1

\* the offset after ["\'\'\'"]?(?=$|[\s\n]) matched at offset g, -1 when it does
\* not match: the optional quote is taken when the lookahead holds after it,
\* else given back
TailEnd(t, g) ==
    CASE g = -1 -> -1
      [] g # -1 /\ g < Len(t) /\ IsQuote(t[g + 1]) /\ LookAhead(t, g + 1) -> g + 1
      [] g # -1 /\ LookAhead(t, g) -> g
      [] OTHER -> -1

\* match.end() of the pattern matched at offset s (absolute), -1 when no match
MatchEndAt(t, s) == TailEnd(t, GroupEnd(t, s))

\* current_pos + re.search(pattern, text[current_pos:]).end(), -1 for no match:
\* the leftmost match
SearchEnd(t, current_pos) ==
    LET starts == {s \in current_pos..(Len(t) - 1) : MatchEndAt(t, s) # -1} IN
    IF starts = {} THEN -1
    ELSE MatchEndAt(t, CHOOSE s \in starts : \A s2 \in starts : s <= s2)

-----------------------------------------------------------------------------
(* exclude_patterns: each pattern is a sequence of atoms, an atom one       *)
(* character class with or without the quantifier +.                        *)

Lit(c) == [cls |-> "lit", ch |-> c, plus |-> FALSE]
Cls(k) == [cls |-> k, ch |-> "", plus |-> FALSE]
Plus(k) == [cls |-> k, ch |-> "", plus |-> TRUE]

AtomMatches(atom, c) ==
    CASE atom.cls = "lit" -> c = atom.ch
      [] atom.cls = "digit" -> IsDigit(c)
      [] atom.cls = "alpha" -> IsAlpha(c)
      [] atom.cls = "upper" -> IsUpper(c)
      [] atom.cls = "word" -> IsWord(c)
      [] OTHER -> FALSE

exclude_patterns ==
    << <<Plus("digit"), Lit("."), Plus("digit")>>,          \* \d+\.\d+
       <<Cls("alpha"), Lit(".")>>,                          \* [A-Za-z]\.
       <<Lit("D"), Lit("r"), Lit(".")>>,                    \* Dr\.
       <<Lit("M"), Lit("r"), Lit(".")>>,                    \* Mr\.
       <<Lit("M"), Lit("r"), Lit("s"), Lit(".")>>,          \* Mrs\.
       <<Lit("M"), Lit("s"), Lit(".")>>,                    \* Ms\.
       <<Lit("e"), Lit("t"), Lit("c"), Lit(".")>>,          \* etc\.
       <<Lit("e"), Lit("."), Lit("g"), Lit(".")>>,          \* e\.g\.
       <<Lit("i"), Lit("."), Lit("e"), Lit(".")>>,          \* i\.e\.
       <<Lit("F"), Lit("i"), Lit("g"), Lit(".")>>,          \* Fig\.
       <<Lit("T"), Lit("a"), Lit("b"), Lit(".")>>,          \* Tab\.
       <<Lit("E"), Lit("q"), Lit(".")>>,                    \* Eq\.
       <<Lit("R"), Lit("e"), Lit("f"), Lit(".")>>,          \* Ref\.
       <<Lit("V"), Lit("o"), Lit("l"), Lit(".")>>,          \* Vol\.
       <<Lit("N"), Lit("o"), Lit(".")>>,                    \* No\.
       <<Lit("p"), Lit(".")>>,                              \* p\.
       <<Lit("p"), Lit("p"), Lit(".")>>,                    \* pp\.
       <<Lit("e"), Lit("t"), Lit(" "), Lit("a"), Lit("l"), Lit(".")>>,  \* et al\.
       <<Plus("word"), Lit("."), Plus("word")>>,            \* \w+\.\w+
       <<Cls("upper"), Lit("."), Cls("upper")>>,            \* [A-Z]\.[A-Z]
       <<Lit("P"), Lit("h"), Lit("."), Lit("D")>>,          \* Ph\.D
       <<Plus("digit"), Lit(".")>> >>                       \* \d+\.

\* whether atoms k.. of pat match t from index i (1-based) on
RECURSIVE MatchFrom(_, _, _, _)
MatchFrom(pat, k, t, i) ==
    IF k > Len(pat) THEN TRUE
    ELSE IF i > Len(t) THEN FALSE
    ELSE IF ~AtomMatches(pat[k], t[i]) THEN FALSE
    ELSE \/ MatchFrom(pat, k + 1, t, i + 1)
         \/ (pat[k].plus /\ MatchFrom(pat, k, t, i + 1))

\* re.search(pattern, sentence) is not None
ReSearch(pat, t) == \E i \in 1..Len(t) : MatchFrom(pat, 1, t, i)

\* the loop over exclude_patterns
MatchesExcludePattern(sentence) ==
    \E n \in 1..Len(exclude_patterns) : ReSearch(exclude_patterns[n], sentence)

MinSentenceLen == 5

\* is_excluded of the top-level paragraph loop
ParagraphCandidateExcluded(sentence) ==
    \/ (Len(sentence) < MinSentenceLen /\ EndsWith(sentence, "."))
    \/ MatchesExcludePattern(sentence)

\* is_excluded of the table cell loop: no length rule
TableCandidateExcluded(sentence) == MatchesExcludePattern(sentence)

IsExcluded(kind, sentence) ==
    IF kind = "paragraph" THEN ParagraphCandidateExcluded(sentence)
    ELSE TableCandidateExcluded(sentence)

-----------------------------------------------------------------------------
(* One iteration of the scan loop `while current_pos < len(text)`, for the  *)
(* top-level copy (kind "paragraph") or the table copy (kind "table").      *)
(* It yields the candidate it looked at: its range, its stripped text and   *)
(* what became of it: "record" (appended to the catalog), "excluded"        *)
(* (is_excluded) or "blank" (the stripped text is empty); `last` says the   *)
(* loop ends with it (the break of the else branch).                        *)

\* MatchedCandidate with a fault: the exclusion rules are not applied
MatchedCandidateKept(current_pos, end_pos, sentence, kind) ==
    [start |-> current_pos, end |-> end_pos, text |-> sentence,
     fate |-> IF sentence = << >> THEN "blank" ELSE "record",
     last |-> FALSE]

\* the candidate of the `if match:` branch
MatchedCandidate(current_pos, end_pos, sentence, kind) ==
    [start |-> current_pos, end |-> end_pos, text |-> sentence,
     fate |-> IF IsExcluded(kind, sentence) THEN "excluded"
              ELSE IF sentence = << >> THEN "blank" ELSE "record",
     last |-> FALSE]

\* the candidate of the `else:` branch: the rest of the text, no exclusion
RemainderCandidate(current_pos, end_pos, sentence) ==
    [start |-> current_pos, end |-> end_pos, text |-> sentence,
     fate |-> IF sentence = << >> THEN "blank" ELSE "record",
     last |-> TRUE]

\* ScanIterAt with a fault: the end stored for the rest of the text is the end of
\* the stripped sentence
ScanIterAtStrippedEnd(t, current_pos, end_pos, kind) ==
    IF end_pos # -1
    THEN MatchedCandidate(current_pos, end_pos,
                          Strip(Slice(t, current_pos, end_pos)), kind)
    ELSE RemainderCandidate(current_pos,
                            current_pos + Len(Strip(Slice(t, current_pos, Len(t)))),
                            Strip(Slice(t, current_pos, Len(t))))

\* the iteration, given end_pos, the end of the match or -1
ScanIterAt(t, current_pos, end_pos, kind) ==
    IF end_pos # -1
    THEN MatchedCandidate(current_pos, end_pos,
                          Strip(Slice(t, current_pos, end_pos)), kind)
    ELSE RemainderCandidate(current_pos, Len(t), Strip(Slice(t, current_pos, Len(t))))

ScanIter(t, current_pos, kind) ==
    ScanIterAt(t, current_pos, SearchEnd(t, current_pos), kind)

\* the candidates of the whole loop, in scan order: from[p] are those of the
\* iterations from current_pos = p on
ScanAll(t, kind) ==
    LET from[p \in 0..Len(t)] ==
            LET Then(c) == <<c>> \o (IF c.last THEN << >> ELSE from[c.end])
            IN IF p >= Len(t) THEN << >> ELSE Then(ScanIter(t, p, kind))
    IN from[0]

IsRecord(c) == c.fate = "record"

\* the candidates the loop appends to the catalog for one paragraph text; a
\* paragraph whose text is blank is skipped
\* (`if not paragraph.text.strip(): continue`)
SegmentParagraph(t, kind) ==
    IF Strip(t) = << >> THEN << >> ELSE SelectSeq(ScanAll(t, kind), IsRecord)

-----------------------------------------------------------------------------
(* The document (python-docx): top-level paragraphs and tables of rows of    *)
(* cells of paragraphs.  A paragraph is its sequence of runs, a run a text   *)
(* with its font color, bold and italic.                                     *)

PlainRun(t) == [text |-> t, color |-> "none", bold |-> FALSE, italic |-> FALSE]

\* the run of lines 281-284: RGBColor(0, 0, 255), bold, italic
CommentRun(t) == [text |-> t, color |-> "0000FF", bold |-> TRUE, italic |-> TRUE]

\* paragraph.text: the texts of the paragraph's runs in a row
ParagraphText(paragraph) ==
    LET upto[k \in 0..Len(paragraph)] ==
            IF k = 0 THEN << >> ELSE upto[k - 1] \o paragraph[k].text
    IN upto[Len(paragraph)]

\* self.document before load_document: None
NoDocument == [loaded |-> FALSE, paragraphs |-> << >>, tables |-> << >>]

\* the path of the input file: os.path.dirname and os.path.basename of it
FilePath == [kind |-> "path", dir |-> "docs", name |-> <<"a", ".", "b", ".", "d", "o", "c", "x">>]

\* DocProcessor.__init__
NewDocProcessor ==
    [file_path |-> FilePath, document |-> NoDocument,
     sentences |-> << >>, sentence_positions |-> << >>]

\* load_document with a fault: the failure to open the file is not reported
load_document_reporting_success(self, file) ==
    IF file.readable
    THEN [self |-> [self EXCEPT !.document =
                       [loaded |-> TRUE, paragraphs |-> file.content.paragraphs,
                        tables |-> file.content.tables]],
          ret |-> TRUE]
    ELSE [self |-> self, ret |-> TRUE]

\* load_document: Document(self.file_path) opens the file or raises
load_document(self, file) ==
    IF file.readable
    THEN [self |-> [self EXCEPT !.document =
                       [loaded |-> TRUE, paragraphs |-> file.content.paragraphs,
                        tables |-> file.content.tables]],
          ret |-> TRUE]
    ELSE [self |-> self, ret |-> FALSE]

-----------------------------------------------------------------------------
(* save_document.  The file system is the set of the files that exist, each  *)
(* with its path and content; a path is a directory and a file name; the     *)
(* clock is read in seconds after 2026-11-04 09:00:00.                       *)

\* a Python str that is a message, not a path
Msg(code) == [kind |-> "message", code |-> code]

\* None, where a path may stand
NoPath == [kind |-> "none"]

NoOutFiles == {}

\* the seconds at which the clock may be read
Times == {0, 1}

\* os.path.exists(path)
Exists(files, path) == \E f \in files : f.path = path

\* document.save(path): the file at path is created or overwritten
WriteFile(files, path, document) ==
    {f \in files : f.path # path} \cup {[path |-> path, content |-> document]}

\* the positions of the dots of base that have a character other than a dot
\* before them
ExtDots(base) ==
    {k \in 1..Len(base) : base[k] = "." /\ \E j \in 1..(k - 1) : base[j] # "."}

\* where the extension starts: at the last such dot, or behind the name
ExtStart(base) ==
    IF ExtDots(base) = {} THEN Len(base) + 1
    ELSE CHOOSE d \in ExtDots(base) : \A e \in ExtDots(base) : e <= d

\* name, ext = os.path.splitext(file_name)
SplitExt(base) ==
    [name |-> SubSeq(base, 1, ExtStart(base) - 1),
     ext |-> SubSeq(base, ExtStart(base), Len(base))]

DigitChars == <<"0", "1", "2", "3", "4", "5", "6", "7", "8", "9">>

\* datetime.datetime.now().strftime("%Y%m%d%H%M%S"), now in 0..59
Strftime(now) ==
    <<"2", "0", "2", "6", "1", "1", "0", "4", "0", "9", "0", "0">>
        \o <<DigitChars[(now \div 10) + 1], DigitChars[(now % 10) + 1]>>

\* "_AI" U+6821 U+5BF9
OutputSuffix == <<"_", "A", "I", "han_jiao", "han_dui">>

\* os.path.join(file_dir, f"{name}_AI<U+6821><U+5BF9>{ext}")
DefaultOutputPath(file_path) ==
    [kind |-> "path", dir |-> file_path.dir,
     name |-> SplitExt(file_path.name).name \o OutputSuffix
                  \o SplitExt(file_path.name).ext]

\* os.path.join(file_dir, f"{name}_AI<U+6821><U+5BF9>_{timestamp}{ext}")
StampedOutputPath(file_path, now) ==
    [kind |-> "path", dir |-> file_path.dir,
     name |-> SplitExt(file_path.name).name \o OutputSuffix \o <<"_">>
                  \o Strftime(now) \o SplitExt(file_path.name).ext]

\* output_path with a fault: the existing file is not looked for
OutputPathUnchecked(file_path, files, now) == DefaultOutputPath(file_path)

\* output_path, when none is given
OutputPath(file_path, files, now) ==
    IF Exists(files, DefaultOutputPath(file_path))
    THEN StampedOutputPath(file_path, now)
    ELSE DefaultOutputPath(file_path)

\* save_document(output_path=None) at time now, on a file system holding files,
\* where document.save writes the file (writable) or raises
save_document(self, files, now, writable) ==
    IF ~self.document.loaded
    THEN [files |-> files, ret |-> [success |-> FALSE, path |-> Msg("not_loaded")]]
    ELSE IF writable
    THEN [files |-> WriteFile(files, OutputPath(self.file_path, files, now),
                              self.document),
          ret |-> [success |-> TRUE, path |-> OutputPath(self.file_path, files, now)]]
    ELSE [files |-> files, ret |-> [success |-> FALSE, path |-> Msg("save_failed")]]

-----------------------------------------------------------------------------
(* split_into_sentences                                                      *)

\* the dictionary of lines 139-145
ParagraphPosition(c, para_index) ==
    [type |-> "paragraph", paragraph_index |-> para_index,
     start |-> c.start, end |-> c.end, text |-> c.text]

\* the dictionary of lines 188-197
TablePosition(c, table_index, row_index, cell_index, para_index) ==
    [type |-> "table", table_index |-> table_index, row_index |-> row_index,
     cell_index |-> cell_index, paragraph_index |-> para_index,
     start |-> c.start, end |-> c.end, text |-> c.text]

\* the dictionaries appended for the records of one top-level paragraph
ParagraphPositionsOf(cands, para_index) ==
    [n \in DOMAIN cands |-> ParagraphPosition(cands[n], para_index)]

\* the dictionaries appended for the records of one paragraph of a table cell
TablePositionsOf(cands, table_index, row_index, cell_index, para_index) ==
    [n \in DOMAIN cands |->
        TablePosition(cands[n], table_index, row_index, cell_index, para_index)]

\* the records appended for top-level paragraph number para_index (0-based)
ParagraphRecords(paragraph, para_index) ==
    ParagraphPositionsOf(SegmentParagraph(ParagraphText(paragraph), "paragraph"),
                         para_index)

\* the records appended for paragraph number para_index of one table cell
CellParagraphRecords(paragraph, table_index, row_index, cell_index, para_index) ==
    TablePositionsOf(SegmentParagraph(ParagraphText(paragraph), "table"),
                     table_index, row_index, cell_index, para_index)

\* the first loop: for para_index, paragraph in enumerate(document.paragraphs);
\* upto[k] is sentence_positions after the first k paragraphs
TopLevelPositions(doc) ==
    LET upto[k \in 0..Len(doc.paragraphs)] ==
            IF k = 0 THEN << >>
            ELSE upto[k - 1] \o ParagraphRecords(doc.paragraphs[k], k - 1)
    IN upto[Len(doc.paragraphs)]

\* for para_index, paragraph in enumerate(cell.paragraphs)
CellRecords(cell, table_index, row_index, cell_index) ==
    LET upto[k \in 0..Len(cell)] ==
            IF k = 0 THEN << >>
            ELSE upto[k - 1] \o CellParagraphRecords(cell[k], table_index, row_index,
                                                      cell_index, k - 1)
    IN upto[Len(cell)]

\* for cell_index, cell in enumerate(row.cells)
RowRecords(row, table_index, row_index) ==
    LET upto[k \in 0..Len(row)] ==
            IF k = 0 THEN << >>
            ELSE upto[k - 1] \o CellRecords(row[k], table_index, row_index, k - 1)
    IN upto[Len(row)]

\* for row_index, row in enumerate(table.rows)
TableRecords(table, table_index) ==
    LET upto[k \in 0..Len(table)] ==
            IF k = 0 THEN << >>
            ELSE upto[k - 1] \o RowRecords(table[k], table_index, k - 1)
    IN upto[Len(table)]

\* the second loop: for table_index, table in enumerate(document.tables)
TablePositions(doc) ==
    LET upto[k \in 0..Len(doc.tables)] ==
            IF k = 0 THEN << >>
            ELSE upto[k - 1] \o TableRecords(doc.tables[k], k - 1)
    IN upto[Len(doc.tables)]

\* Catalog with a fault: the table loop before the paragraph loop
CatalogTablesFirst(doc) == TablePositions(doc) \o TopLevelPositions(doc)

\* sentence_positions as the two loops leave it
Catalog(doc) == TopLevelPositions(doc) \o TablePositions(doc)

\* position['text'], the sentence appended to self.sentences
TextOf(position) == position.text

\* self.sentences: the text of each record
TextsOf(positions) == [n \in DOMAIN positions |-> TextOf(positions[n])]

split_into_sentences(self) ==
    IF ~self.document.loaded
    THEN [self |-> self, ret |-> << >>]
    ELSE LET Built(positions) ==
                 [self |-> [self EXCEPT !.sentences = TextsOf(positions),
                                        !.sentence_positions = positions],
                  ret |-> TextsOf(positions)]
         IN Built(Catalog(self.document))

-----------------------------------------------------------------------------
(* add_comment                                                               *)

\* "[<U+6821><U+5BF9><U+5EFA><U+8BAE>: {comment_text}]", the text of line 281
CommentText(comment_text) ==
    <<"[", "han_jiao", "han_dui", "han_jian", "han_yi", ":", " ">>
        \o comment_text \o <<"]">>

\* AddCommentToParagraph with a fault: the comment is put before the text
AddCommentBeforeText(paragraph, comment_text) ==
    <<CommentRun(CommentText(comment_text)), PlainRun(<<" ">>),
      PlainRun(ParagraphText(paragraph))>>

\* AddCommentToParagraph with a fault: the text of the first run is kept instead
\* of paragraph.text
AddCommentKeepingFirstRun(paragraph, comment_text) ==
    <<PlainRun(paragraph[1].text), PlainRun(<<" ">>),
      CommentRun(CommentText(comment_text))>>

\* whether add_run accepts the text: python-docx hands it to lxml, which
\* raises ValueError for a string with a control character (U+0001 here)
XmlCompatible(chars) == \A k \in 1..Len(chars) : chars[k] # "ctrl_01"

\* the value _add_comment_to_paragraph returns: False when a call in its try
\* block raised
AddCommentToParagraphReturns(paragraph, comment_text) == XmlCompatible(comment_text)

\* _add_comment_to_paragraph: the paragraph's runs after the call.  The runs are
\* removed and three are added: the text read at the start, a space, the comment.
\* When add_run raises for the comment the first two runs are in place and the
\* third is left without text.
AddCommentToParagraph(paragraph, comment_text) ==
    LET t == ParagraphText(paragraph) IN
    IF XmlCompatible(comment_text)
    THEN <<PlainRun(t), PlainRun(<<" ">>), CommentRun(CommentText(comment_text))>>
    ELSE <<PlainRun(t), PlainRun(<<" ">>), PlainRun(<< >>)>>

\* whether seq[i] raises IndexError, for a Python list and any integer i
IndexError(seq, i) == i >= Len(seq) \/ i < -Len(seq)

\* seq[i] of a Python list: a negative i counts from the end
PyIndex(seq, i) == IF i >= 0 THEN seq[i + 1] ELSE seq[Len(seq) + i + 1]

\* whether the lookups of lines 239 and 244-246 raise
LocatorError(doc, position) ==
    IF position.type = "paragraph"
    THEN IndexError(doc.paragraphs, position.paragraph_index)
    ELSE \/ IndexError(doc.tables, position.table_index)
         \/ LET table == PyIndex(doc.tables, position.table_index) IN
            \/ IndexError(table, position.row_index)
            \/ LET row == PyIndex(table, position.row_index) IN
               \/ IndexError(row, position.cell_index)
               \/ IndexError(PyIndex(row, position.cell_index),
                             position.paragraph_index)

\* CommentedDocument with a fault: position['type'] is not looked at, the
\* paragraph is always taken from document.paragraphs
CommentedDocumentIgnoringType(doc, position, comment_text) ==
    [doc EXCEPT !.paragraphs[position.paragraph_index + 1] =
                    AddCommentToParagraph(@, comment_text)]

\* the document after lines 237-247 for a position that resolves
CommentedDocument(doc, position, comment_text) ==
    IF position.type = "paragraph"
    THEN [doc EXCEPT !.paragraphs[position.paragraph_index + 1] =
                        AddCommentToParagraph(@, comment_text)]
    ELSE [doc EXCEPT !.tables[position.table_index + 1][position.row_index + 1]
                             [position.cell_index + 1][position.paragraph_index + 1] =
                        AddCommentToParagraph(@, comment_text)]

\* add_comment with a fault: the record's end is moved behind the comment
add_comment_moving_end(self, sentence_index, comment_text) ==
    IF ~self.document.loaded \/ sentence_index >= Len(self.sentence_positions)
       \/ IndexError(self.sentence_positions, sentence_index)
    THEN [self |-> self, ret |-> FALSE]
    ELSE [self |-> [self EXCEPT
                      !.document = CommentedDocument(
                          self.document,
                          PyIndex(self.sentence_positions, sentence_index),
                          comment_text),
                      !.sentence_positions[IF sentence_index >= 0
                                           THEN sentence_index + 1
                                           ELSE Len(self.sentence_positions)
                                                + sentence_index + 1].end =
                          @ + Len(CommentText(comment_text)) + 1],
          ret |-> TRUE]

add_comment(self, sentence_index, comment_text) ==
    IF ~self.document.loaded \/ sentence_index >= Len(self.sentence_positions)
    THEN [self |-> self, ret |-> FALSE]
    ELSE IF IndexError(self.sentence_positions, sentence_index)
    THEN [self |-> self, ret |-> FALSE]
    ELSE LET position == PyIndex(self.sentence_positions, sentence_index) IN
         IF LocatorError(self.document, position)
         THEN [self |-> self, ret |-> FALSE]
         ELSE [self |-> [self EXCEPT !.document =
                            CommentedDocument(self.document, position, comment_text)],
               ret |-> TRUE]

-----------------------------------------------------------------------------
(* Inputs.                                                                   *)

MaxTextLen == 4

\* an ideograph, two full-width terminators, the ASCII ones, a space, a quote
\* and a digit
SegAlphabet == {"han_hao", FwStop, FwBang, ".", "!", " ", "\"", "3"}

\* U+4F60 U+597D U+3002 U+4ECA U+5929 U+5929 U+6C14 U+4E0D U+9519 U+FF01
TextNiHao ==
    <<"han_ni", "han_hao", FwStop,
      "han_jin", "han_tian", "han_tian", "han_qi", "han_bu", "han_cuo", FwBang>>

\* U+4EF7 U+683C U+662F 3.14 U+5143, without its terminator
TextPrice == <<"han_jia", "han_ge", "han_shi", "3", ".", "1", "4", "han_yuan">>

\* "Dr. Smith arrived", without its terminator
TextDrSmith ==
    <<"D", "r", ".", " ", "S", "m", "i", "t", "h", " ",
      "a", "r", "r", "i", "v", "e", "d">>

\* the characters that end a sentence
Terminators == {FwStop, FwQuestion, FwBang, ".", "?", "!"}

\* U+597D "! 3.1! " U+4F60: two sentences around a candidate that is excluded
TextTwo == <<"han_hao", "!", " ", "3", ".", "1", "!", " ", "han_ni">>

\* U+597D "! 3.1!  ": a sentence, an excluded candidate and a blank remainder
TextBlankEnd == <<"han_hao", "!", " ", "3", ".", "1", "!", " ", " ">>

ExampleTexts ==
    {TextNiHao, TextTwo, TextBlankEnd} \cup {TextPrice \o <<c>> : c \in Terminators}
                \cup {TextDrSmith \o <<c>> : c \in Terminators}

SegTexts ==
    UNION {[1..n -> SegAlphabet] : n \in 0..MaxTextLen} \cup ExampleTexts

-----------------------------------------------------------------------------
(* SegSpec: the two scan loops of split_into_sentences on one paragraph      *)
(* text, an iteration a step.  A scan is at pc "start" before the blank      *)
(* check, "loop" at the while condition, "done" after the loop; cands are    *)
(* the candidates of the iterations so far.                                  *)

NewScan == [pc |-> "start", current_pos |-> 0, cands |-> << >>]

\* `if not paragraph.text.strip(): continue`, else current_pos = 0
BeginScan(scan, t) ==
    IF Strip(t) = << >> THEN [scan EXCEPT !.pc = "done"]
    ELSE [scan EXCEPT !.pc = "loop", !.current_pos = 0]

\* one iteration of the while loop: current_pos = end_pos, or break
IterateScan(scan, t, kind) ==
    LET c == ScanIter(t, scan.current_pos, kind) IN
    [pc |-> IF c.last THEN "done" ELSE "loop",
     current_pos |-> IF c.last THEN scan.current_pos ELSE c.end,
     cands |-> Append(scan.cands, c)]

\* the (start, end, text) a scan has appended to sentence_positions
SpanOf(c) == [start |-> c.start, end |-> c.end, text |-> c.text]

SpansOf(cands) == [n \in DOMAIN cands |-> SpanOf(cands[n])]

ScanRecords(scan) == SpansOf(SelectSeq(scan.cands, IsRecord))

\* MainWindow.__init__ and initUI: no file, no worker, the start, stop and
\* export buttons disabled; dialogs are the modal dialogs open, the last on top
NewWindow ==
    [file_path |-> FALSE, is_proofreading |-> FALSE, worker |-> 0,
     start_button |-> FALSE, stop_button |-> FALSE, select_file_button |-> TRUE,
     config_button |-> TRUE, export_button |-> FALSE, dialogs |-> << >>]

\* ProofreadWorker.__init__
NewThread == [pc |-> "run", is_running |-> TRUE, writes |-> 0]

\* exec_() of a modal dialog
OpenDialog(self, dialog) == [self EXCEPT !.dialogs = Append(@, dialog)]

\* the top modal dialog is closed; an export dialog that has emitted
\* exportRequested calls accept() as soon as the slot returns
Closed(dialogs) ==
    LET rest == SubSeq(dialogs, 1, Len(dialogs) - 1) IN
    IF rest # << >> /\ rest[Len(rest)] = "exported"
    THEN SubSeq(rest, 1, Len(rest) - 1) ELSE rest

\* select_file, a file chosen in the file dialog
select_file(self) == [self EXCEPT !.file_path = TRUE, !.start_button = TRUE]

\* start_proofreading with a fault: the start button stays enabled
start_proofreading_start_enabled(self, valid, id) ==
    IF ~self.file_path THEN OpenDialog(self, "message")
    ELSE IF ~valid THEN OpenDialog(self, "config")
    ELSE [self EXCEPT !.is_proofreading = TRUE, !.stop_button = TRUE,
                      !.select_file_button = FALSE, !.config_button = FALSE,
                      !.export_button = FALSE, !.worker = id]

\* start_proofreading, validate_config() answering valid; id is the new worker
start_proofreading(self, valid, id) ==
    IF ~self.file_path THEN OpenDialog(self, "message")
    ELSE IF ~valid THEN OpenDialog(self, "config")
    ELSE [self EXCEPT !.is_proofreading = TRUE, !.start_button = FALSE,
                      !.stop_button = TRUE, !.select_file_button = FALSE,
                      !.config_button = FALSE, !.export_button = FALSE,
                      !.worker = id]

\* whether start_proofreading creates and starts a worker
StartsWorker(self, valid) == self.file_path /\ valid

\* proofreading_finished: the buttons are reset and a message box is shown
proofreading_finished(self) ==
    OpenDialog([self EXCEPT !.is_proofreading = FALSE, !.start_button = TRUE,
                            !.stop_button = FALSE, !.select_file_button = TRUE,
                            !.config_button = TRUE, !.export_button = TRUE],
               "message")

\* the threads that have not emitted finished yet: they write to the LogManager
InProgress(ths) == {id \in 1..Len(ths) : ths[id].pc = "run"}

WindowIdle ==
    /\ window = NewWindow
    /\ threads = << >>
    /\ queue = << >>
    /\ exports = {}

DocIdle ==
    /\ docFile = [readable |-> FALSE, content |-> NoDocument]
    /\ doc_processor = NewDocProcessor
    /\ phase = "idle"
    /\ calls = << >>
    /\ ret = FALSE
    /\ outFiles = NoOutFiles

\* no worker thread has been created
WorkerIdle ==
    /\ worker = [pc |-> "idle", is_running |-> FALSE, i |-> 0,
                 success |-> FALSE, result |-> [type |-> "none"]]
    /\ response = [kind |-> "none"]
    /\ log_manager = [logs |-> << >>, error_count |-> 0, total_count |-> 0,
                      started |-> FALSE, ended |-> FALSE, save_path |-> NoPath]
    /\ signals = << >>
    /\ events = << >>

SegInit ==
    /\ WindowIdle
    /\ text \in SegTexts
    /\ paraScan = NewScan
    /\ tableScan = NewScan
    /\ DocIdle
    /\ WorkerIdle

ParagraphScanBegin ==
    /\ paraScan.pc = "start"
    /\ paraScan' = BeginScan(paraScan, text)
    /\ UNCHANGED <<text, tableScan, docVars, workerVars, winVars>>

ParagraphScanIterate ==
    /\ paraScan.pc = "loop"
    /\ paraScan.current_pos < Len(text)
    /\ paraScan' = IterateScan(paraScan, text, "paragraph")
    /\ UNCHANGED <<text, tableScan, docVars, workerVars, winVars>>

ParagraphScanExit ==
    /\ paraScan.pc = "loop"
    /\ paraScan.current_pos >= Len(text)
    /\ paraScan' = [paraScan EXCEPT !.pc = "done"]
    /\ UNCHANGED <<text, tableScan, docVars, workerVars, winVars>>

\* the table loop runs after the paragraph loop
TableScanBegin ==
    /\ paraScan.pc = "done"
    /\ tableScan.pc = "start"
    /\ tableScan' = BeginScan(tableScan, text)
    /\ UNCHANGED <<text, paraScan, docVars, workerVars, winVars>>

TableScanIterate ==
    /\ tableScan.pc = "loop"
    /\ tableScan.current_pos < Len(text)
    /\ tableScan' = IterateScan(tableScan, text, "table")
    /\ UNCHANGED <<text, paraScan, docVars, workerVars, winVars>>

TableScanExit ==
    /\ tableScan.pc = "loop"
    /\ tableScan.current_pos >= Len(text)
    /\ tableScan' = [tableScan EXCEPT !.pc = "done"]
    /\ UNCHANGED <<text, paraScan, docVars, workerVars, winVars>>

SegNext ==
    \/ ParagraphScanBegin
    \/ ParagraphScanIterate
    \/ ParagraphScanExit
    \/ TableScanBegin
    \/ TableScanIterate
    \/ TableScanExit

vars == <<segVars, docVars, workerVars, winVars>>

SegSpec == SegInit /\ [][SegNext]_vars

\* a scan has a step to take until both loops are done; every step changes
\* the scan that takes it
ScanEnabled == paraScan.pc # "done" \/ tableScan.pc # "done"

\* split_into_sentences is straight-line code in one thread: a loop that can
\* take its next step takes it.  This is WF_vars(SegNext), with
\* ENABLED <<SegNext>>_vars written out as ScanEnabled.
SegFair == []<>(~ScanEnabled) \/ []<><<SegNext>>_vars

SegLiveSpec == SegInit /\ [][SegNext]_vars /\ SegFair

-----------------------------------------------------------------------------
(* Spec: one DocProcessor and a caller that calls its methods in the order   *)
(* of ProofreadWorker.run and of the module's own test code: load_document,  *)
(* split_into_sentences, add_comment any number of times with any index and  *)
(* comment, save_document.                                                   *)

MaxParas == 2

MaxCalls == 2

\* a blank paragraph
TextBlank == <<" ">>

\* one sentence: U+597D U+3002
TextOne == <<"han_hao", FwStop>>

ParaTexts == {TextBlank, TextOne, TextTwo}

\* a paragraph as loaded from the file: its text in one run
LoadedParagraph(t) == <<PlainRun(t)>>

\* one row of one cell of one paragraph with two sentences
Table1x1 == << << <<LoadedParagraph(<<"han_hao", "!", " ", "han_ni">>)>> >> >>

\* two rows of two cells; the first cell holds two paragraphs
Table2x2 ==
    << << <<LoadedParagraph(TextOne), LoadedParagraph(TextOne)>>,
          <<LoadedParagraph(TextOne)>> >>,
       << <<LoadedParagraph(TextBlank)>>,
          <<LoadedParagraph(TextOne)>> >> >>

\* the tables that follow top-level paragraphs
TableSeqs == {<< >>, <<Table1x1>>}

ParaSeqs ==
    UNION {[1..n -> {LoadedParagraph(t) : t \in ParaTexts}] : n \in 0..MaxParas}

\* documents of paragraphs and at most one table, and one of two tables only
Docs ==
    {[paragraphs |-> ps, tables |-> ts] : ps \in ParaSeqs, ts \in TableSeqs}
        \cup {[paragraphs |-> << >>, tables |-> <<Table2x2, Table1x1>>]}

Files ==
    {[readable |-> TRUE, content |-> d] : d \in Docs}
        \cup {[readable |-> FALSE, content |-> NoDocument]}

\* U+9519 and U+4E0D U+5BF9: the annotation field of a classifier verdict
CommentA == <<"han_cuo">>
CommentB == <<"han_bu", "han_dui">>
Comments == {CommentA, CommentB}

\* an annotation with a control character, as the escape \\u0001 gives it
CommentCtrl == <<"han_cuo", "ctrl_01">>

SegIdle ==
    /\ text = << >>
    /\ paraScan = NewScan
    /\ tableScan = NewScan

Init ==
    /\ WindowIdle
    /\ docFile \in Files
    /\ doc_processor = NewDocProcessor
    /\ phase = "new"
    /\ calls = << >>
    /\ ret = [op |-> "init"]
    /\ outFiles = NoOutFiles
    /\ SegIdle
    /\ WorkerIdle

LoadDocument ==
    /\ phase = "new"
    /\ LET r == load_document(doc_processor, docFile) IN
        /\ doc_processor' = r.self
        /\ ret' = [op |-> "load_document", value |-> r.ret]
        /\ phase' = IF r.ret THEN "loaded" ELSE "failed"
    /\ UNCHANGED <<docFile, calls, outFiles, segVars, winVars, workerVars>>

SplitIntoSentences ==
    /\ phase = "loaded"
    /\ LET r == split_into_sentences(doc_processor) IN
        /\ doc_processor' = r.self
        /\ ret' = [op |-> "split_into_sentences", value |-> r.ret]
    /\ phase' = "split"
    /\ UNCHANGED <<docFile, calls, outFiles, segVars, winVars, workerVars>>

AddComment ==
    /\ phase = "split"
    /\ Len(calls) < MaxCalls
    /\ \E sentence_index \in -1..Len(doc_processor.sentence_positions),
          comment_text \in Comments :
          LET r == add_comment(doc_processor, sentence_index, comment_text) IN
          /\ doc_processor' = r.self
          /\ ret' = [op |-> "add_comment", value |-> r.ret]
          /\ calls' = Append(calls, [index |-> sentence_index,
                                     comment |-> comment_text, ret |-> r.ret])
    /\ UNCHANGED <<docFile, phase, outFiles, segVars, winVars, workerVars>>

\* save_document: document.save(output_path) writes the file or raises
SaveDocument ==
    /\ phase = "split"
    /\ \E writable \in BOOLEAN, now \in Times :
          LET r == save_document(doc_processor, outFiles, now, writable) IN
          /\ outFiles' = r.files
          /\ ret' = [op |-> "save_document", value |-> r.ret]
    /\ phase' = "saved"
    /\ UNCHANGED <<docFile, doc_processor, calls, segVars, winVars, workerVars>>

Next ==
    \/ LoadDocument
    \/ SplitIntoSentences
    \/ AddComment
    \/ SaveDocument

Spec == Init /\ [][Next]_vars

-----------------------------------------------------------------------------
(* ApiClient.proofread_sentence.  A JSON value is a record with its type:   *)
(* an object with its fields, an array with its items, a string with its     *)
(* characters, a boolean, a number or null.                                  *)

\* the characters of the four field names the client looks for
KeyChars ==
    [content_0  |-> <<"c", "o", "n", "t", "e", "n", "t", "_", "0">>,
     wrong      |-> <<"w", "r", "o", "n", "g">>,
     annotation |-> <<"a", "n", "n", "o", "t", "a", "t", "i", "o", "n">>,
     content_1  |-> <<"c", "o", "n", "t", "e", "n", "t", "_", "1">>]

\* ['content_0', 'wrong', 'annotation', 'content_1']
Keys == DOMAIN KeyChars

JObject(fields) == [type |-> "object", fields |-> fields]
JArray(items) == [type |-> "array", items |-> items]
JString(chars) == [type |-> "string", chars |-> chars]
JBool(b) == [type |-> "bool", value |-> b]
JNumber == [type |-> "number"]
JNull == [type |-> "null"]

\* bool(value) with a fault: every value counts as true
AlwaysTruthy(value) == TRUE

\* bool(value), as the worker's "if result['wrong']" takes it
Truthy(value) ==
    CASE value.type = "bool" -> value.value
      [] value.type = "string" -> value.chars # << >>
      [] value.type = "array" -> value.items # << >>
      [] value.type = "object" -> DOMAIN value.fields # {}
      [] value.type = "number" -> TRUE
      [] OTHER -> FALSE

\* str(value), as an f-string formats it
Str(value) ==
    CASE value.type = "string" -> value.chars
      [] value.type = "bool" ->
            IF value.value THEN <<"T", "r", "u", "e">> ELSE <<"F", "a", "l", "s", "e">>
      [] value.type = "number" -> <<"5">>
      [] OTHER -> <<"N", "o", "n", "e">>

\* "key in result" raises TypeError when result is not a container
KeyInRaises(result) == result.type \in {"bool", "number", "null"}

\* "key in result": a key of a dict, an item of a list, a substring of a str
KeyIn(key, result) ==
    CASE result.type = "object" -> key \in DOMAIN result.fields
      [] result.type = "array" ->
            \E k \in 1..Len(result.items) : result.items[k] = JString(KeyChars[key])
      [] result.type = "string" -> Contains(result.chars, KeyChars[key])
      [] OTHER -> FALSE

\* result['wrong'] and result['annotation'] raise TypeError unless result is a dict
SubscriptRaises(result) == result.type # "object"

\* the JSON text the client parses out of the message content: the content
\* itself, or what stands between the first two Markdown fences; a content that
\* opens a fence and never closes it is parsed whole, and is not JSON
JsonTextOf(content) ==
    IF content.fence = "unclosed" THEN [valid |-> FALSE] ELSE content.json

\* (False, message)
Failure(message) == [success |-> FALSE, result |-> [type |-> "message", text |-> message]]

\* after json.loads: the check of the four fields
ValidateResult(result) ==
    IF KeyInRaises(result)
    THEN Failure("exception")
    ELSE IF \A key \in Keys : KeyIn(key, result)
         THEN [success |-> TRUE, result |-> result]
         ELSE Failure("bad_format")

\* proofread_sentence(sentence), the service answering with resp
proofread_sentence(sentence, resp) ==
    IF Strip(sentence) = << >> THEN Failure("empty_sentence")
    ELSE IF resp.kind = "raises" THEN Failure("exception")
    ELSE IF resp.status_code # 200 THEN Failure("bad_status")
    ELSE IF resp.body.kind = "not_json" THEN Failure("exception")
    ELSE IF Len(resp.body.choices) = 0 THEN Failure("no_content")
    ELSE IF ~JsonTextOf(resp.body.choices[1]).valid THEN Failure("not_json")
    ELSE ValidateResult(JsonTextOf(resp.body.choices[1]).value)

-----------------------------------------------------------------------------
(* LogManager                                                                *)

NewLogManager ==
    [logs |-> << >>, error_count |-> 0, total_count |-> 0,
     started |-> FALSE, ended |-> FALSE, save_path |-> NoPath]

start_logging(self) ==
    [self EXCEPT !.logs = << >>, !.error_count = 0, !.total_count = 0,
                 !.started = TRUE]

\* result.get(key, '')
GetOr(result, key) ==
    IF key \in DOMAIN result.fields THEN Str(result.fields[key]) ELSE << >>

log_sentence(self, sentence, result, has_error) ==
    [self EXCEPT
        !.total_count = @ + 1,
        !.error_count = IF has_error THEN @ + 1 ELSE @,
        !.logs = Append(@,
            [sentence |-> sentence, has_error |-> has_error,
             is_process_error |-> FALSE,
             annotation |-> IF has_error THEN GetOr(result, "annotation") ELSE << >>,
             corrected |-> IF has_error THEN GetOr(result, "content_1") ELSE << >>,
             error_message |-> "none"])]

log_error(self, sentence, error_message) ==
    [self EXCEPT
        !.logs = Append(@,
            [sentence |-> sentence, has_error |-> FALSE,
             is_process_error |-> TRUE,
             annotation |-> << >>, corrected |-> << >>,
             error_message |-> error_message.text])]

finish_logging(self, save_path) ==
    [self EXCEPT !.ended = TRUE, !.save_path = save_path]

\* get_log_summary(): the counts, whether start_time and end_time are set, and
\* save_path; export_logs writes the same fields
get_log_summary(self) ==
    [total_count |-> self.total_count, error_count |-> self.error_count,
     start_time |-> self.started, end_time |-> self.ended,
     save_path |-> self.save_path]

-----------------------------------------------------------------------------
(* WorkerSpec: one ProofreadWorker thread running run() over a file, the     *)
(* classifier service answering each request in any way, and the window      *)
(* calling stop() at any moment.                                             *)

\* U+597D "! " U+4F60: two sentences in one paragraph
TextPair == <<"han_hao", "!", " ", "han_ni">>

WorkerDocs ==
    {[paragraphs |-> <<LoadedParagraph(TextBlank)>>, tables |-> << >>],
     [paragraphs |-> <<LoadedParagraph(TextOne)>>, tables |-> << >>],
     [paragraphs |-> <<LoadedParagraph(TextPair)>>, tables |-> << >>],
     [paragraphs |-> <<LoadedParagraph(TextOne)>>, tables |-> <<Table1x1>>]}

WorkerFiles ==
    {[readable |-> TRUE, content |-> d] : d \in WorkerDocs}
        \cup {[readable |-> FALSE, content |-> NoDocument]}

\* an object with the four fields
FourFields(wrong, annotation) ==
    JObject([content_0 |-> JString(TextOne), wrong |-> wrong,
             annotation |-> annotation, content_1 |-> JString(TextOne)])

\* a list of the four field names
ArrayOfKeys ==
    JArray(<<JString(KeyChars["content_0"]), JString(KeyChars["wrong"]),
             JString(KeyChars["annotation"]), JString(KeyChars["content_1"])>>)

\* a sentence that names the four fields
StringOfKeys ==
    JString(KeyChars["content_0"] \o <<" ">> \o KeyChars["wrong"] \o <<" ">>
                \o KeyChars["annotation"] \o <<" ">> \o KeyChars["content_1"])

JsonValues ==
    {FourFields(JBool(TRUE), JString(c)) : c \in Comments \cup {CommentCtrl}}
        \cup {FourFields(JBool(FALSE), JString(<< >>)),
              FourFields(JString(<<"n", "o">>), JNull),
              JObject([wrong |-> JBool(TRUE)]),
              ArrayOfKeys, JArray(<< >>),
              StringOfKeys, JString(KeyChars["wrong"]),
              JNumber, JNull}

\* what json.loads is given: text that parses to a value, or text that does not
JsonTexts == {[valid |-> FALSE]} \cup {[valid |-> TRUE, value |-> v] : v \in JsonValues}

\* the message content: the JSON text bare, or within Markdown fences
Contents ==
    {[fence |-> "none", json |-> j] : j \in JsonTexts}
        \cup {[fence |-> f, json |-> [valid |-> TRUE,
                                      value |-> FourFields(JBool(TRUE), JString(CommentA))]] :
                 f \in {"json", "unclosed"}}

Bodies ==
    {[kind |-> "not_json"], [kind |-> "json", choices |-> << >>]}
        \cup {[kind |-> "json", choices |-> <<c>>] : c \in Contents}

ApiResponses ==
    {[kind |-> "raises"],
     [kind |-> "http", status_code |-> 500, body |-> [kind |-> "not_json"]]}
        \cup {[kind |-> "http", status_code |-> 200, body |-> b] : b \in Bodies}

\* the LogManager of the window after an earlier run
UsedLogManager ==
    [logs |-> <<[sentence |-> TextOne, has_error |-> FALSE, is_process_error |-> FALSE,
                 annotation |-> << >>, corrected |-> << >>, error_message |-> "none"]>>,
     error_count |-> 0, total_count |-> 1,
     started |-> TRUE, ended |-> TRUE, save_path |-> DefaultOutputPath(FilePath)]

\* the document saved by an earlier run
OldDocument ==
    [loaded |-> TRUE, paragraphs |-> <<LoadedParagraph(TextOne)>>, tables |-> << >>]

\* an output file left by an earlier run
OldOutFiles == {[path |-> DefaultOutputPath(FilePath), content |-> OldDocument]}

\* the output files left by two earlier runs, the second one in second 0
OlderOutFiles ==
    OldOutFiles \cup {[path |-> StampedOutputPath(FilePath, 0), content |-> OldDocument]}

\* ProofreadWorker.__init__ and start()
WorkerInit ==
    /\ WindowIdle
    /\ docFile \in WorkerFiles
    /\ doc_processor = NewDocProcessor
    /\ phase = "idle"
    /\ calls = << >>
    /\ ret = FALSE
    /\ outFiles \in {NoOutFiles, OldOutFiles, OlderOutFiles}
    /\ log_manager = IF outFiles = NoOutFiles THEN NewLogManager ELSE UsedLogManager
    /\ SegIdle
    /\ worker = [pc |-> "load", is_running |-> TRUE, i |-> 0,
                 success |-> FALSE, result |-> [type |-> "none"]]
    /\ response = [kind |-> "none"]
    /\ signals = << >>
    /\ events = << >>

Finished(ok, message) == [signal |-> "finished", ok |-> ok, message |-> message]

\* logUpdated with the log text: of a sentence without or with an error found,
\* of a processing error, or the summary
LogUpdated(kind) == [signal |-> "logUpdated", kind |-> kind]

\* EmitFinished with a fault: the signal is emitted twice
EmitFinishedTwice(ok, message) ==
    /\ signals' = signals \o <<Finished(ok, message), Finished(ok, message)>>
    /\ worker' = [worker EXCEPT !.pc = "finished"]

\* the worker stops at a finished signal
EmitFinished(ok, message) ==
    /\ signals' = Append(signals, Finished(ok, message))
    /\ worker' = [worker EXCEPT !.pc = "finished"]

\* doc_processor.load_document()
RunLoad ==
    /\ worker.pc = "load"
    /\ LET r == load_document(doc_processor, docFile) IN
        /\ doc_processor' = r.self
        /\ IF r.ret
           THEN worker' = [worker EXCEPT !.pc = "split"] /\ UNCHANGED signals
           ELSE EmitFinished(FALSE, Msg("load_failed"))
        /\ events' = Append(events, [op |-> "load_document", ret |-> r.ret])
    /\ UNCHANGED <<docFile, phase, calls, ret, outFiles, segVars, winVars, response, log_manager>>

\* sentences = doc_processor.split_into_sentences(); log_manager.start_logging()
RunSplit ==
    /\ worker.pc = "split"
    /\ LET r == split_into_sentences(doc_processor) IN
        /\ doc_processor' = r.self
        /\ IF r.ret = << >>
           THEN /\ EmitFinished(FALSE, Msg("no_sentences"))
                /\ events' = Append(events, [op |-> "split_into_sentences"])
                /\ UNCHANGED log_manager
           ELSE /\ log_manager' = start_logging(log_manager)
                /\ worker' = [worker EXCEPT !.pc = "loop", !.i = 0]
                /\ events' = events \o <<[op |-> "split_into_sentences"],
                                          [op |-> "start_logging"]>>
                /\ UNCHANGED signals
    /\ UNCHANGED <<docFile, phase, calls, ret, outFiles, segVars, winVars, response>>

\* the head of the loop with a fault: is_running is never tested
RunLoopTestIgnoringStop ==
    /\ worker.pc = "loop"
    /\ IF worker.i >= Len(doc_processor.sentences)
       THEN worker' = [worker EXCEPT !.pc = "save"] /\ UNCHANGED signals
       ELSE /\ signals' = Append(signals, [signal |-> "progressUpdated",
                                           current |-> worker.i + 1,
                                           total |-> Len(doc_processor.sentences)])
            /\ worker' = [worker EXCEPT !.pc = "request"]
    /\ UNCHANGED <<docVars, segVars, winVars, response, log_manager, events>>

\* the head of the loop with a fault: the loop ends one sentence early
RunLoopTestLeavingEarly ==
    /\ worker.pc = "loop"
    /\ IF worker.i + 1 >= Len(doc_processor.sentences)
       THEN worker' = [worker EXCEPT !.pc = "save"] /\ UNCHANGED signals
       ELSE IF ~worker.is_running
       THEN EmitFinished(FALSE, Msg("stopped"))
       ELSE /\ signals' = Append(signals, [signal |-> "progressUpdated",
                                           current |-> worker.i + 1,
                                           total |-> Len(doc_processor.sentences)])
            /\ worker' = [worker EXCEPT !.pc = "request"]
    /\ UNCHANGED <<docVars, segVars, winVars, response, log_manager, events>>

\* the head of "for i, sentence in enumerate(sentences)" and the is_running test
RunLoopTest ==
    /\ worker.pc = "loop"
    /\ IF worker.i >= Len(doc_processor.sentences)
       THEN worker' = [worker EXCEPT !.pc = "save"] /\ UNCHANGED signals
       ELSE IF ~worker.is_running
       THEN EmitFinished(FALSE, Msg("stopped"))
       ELSE /\ signals' = Append(signals, [signal |-> "progressUpdated",
                                           current |-> worker.i + 1,
                                           total |-> Len(doc_processor.sentences)])
            /\ worker' = [worker EXCEPT !.pc = "request"]
    /\ UNCHANGED <<docVars, segVars, winVars, response, log_manager, events>>

\* success, result = api_client.proofread_sentence(sentence)
Classify ==
    /\ worker.pc = "request"
    /\ \E resp \in ApiResponses :
          LET r == proofread_sentence(doc_processor.sentences[worker.i + 1], resp) IN
          /\ response' = resp
          /\ worker' = [worker EXCEPT !.pc = "handle", !.success = r.success,
                                      !.result = r.result]
          /\ events' = Append(events, [op |-> "proofread_sentence", i |-> worker.i,
                                        sentence |-> doc_processor.sentences[worker.i + 1],
                                        success |-> r.success, result |-> r.result])
    /\ UNCHANGED <<docVars, segVars, winVars, log_manager, signals>>

\* the rest of the loop body, and the handler of an exception raised in it
RunHandle ==
    /\ worker.pc = "handle"
    /\ LET sentence == doc_processor.sentences[worker.i + 1]
           result == worker.result
       IN
       IF worker.success /\ SubscriptRaises(result)
       THEN /\ EmitFinished(FALSE, Msg("error"))
            /\ UNCHANGED <<doc_processor, log_manager, events>>
       ELSE /\ IF ~worker.success
               THEN /\ log_manager' = log_error(log_manager, sentence, result)
                    /\ events' = Append(events, [op |-> "log_error", i |-> worker.i])
                    /\ signals' = Append(signals, LogUpdated("process_error"))
                    /\ UNCHANGED doc_processor
               ELSE IF Truthy(result.fields.wrong)
               THEN /\ doc_processor' = add_comment(doc_processor, worker.i,
                                                    Str(result.fields.annotation)).self
                    /\ log_manager' = log_sentence(log_manager, sentence, result, TRUE)
                    /\ events' = events \o
                          <<[op |-> "add_comment", i |-> worker.i,
                             comment |-> Str(result.fields.annotation),
                             ret |-> add_comment(doc_processor, worker.i,
                                                 Str(result.fields.annotation)).ret],
                            [op |-> "log_sentence", i |-> worker.i]>>
                    /\ signals' = Append(signals, LogUpdated("error_found"))
               ELSE /\ log_manager' = log_sentence(log_manager, sentence, result, FALSE)
                    /\ events' = Append(events, [op |-> "log_sentence", i |-> worker.i])
                    /\ signals' = Append(signals, LogUpdated("no_error"))
                    /\ UNCHANGED doc_processor
            /\ worker' = [worker EXCEPT !.pc = "loop", !.i = @ + 1]
    /\ UNCHANGED <<docFile, phase, calls, ret, outFiles, segVars, winVars, response>>

\* doc_processor.save_document() and the end of run()
RunSave ==
    /\ worker.pc = "save"
    /\ \E writable \in BOOLEAN, now \in Times :
          LET r == save_document(doc_processor, outFiles, now, writable) IN
          /\ outFiles' = r.files
          /\ IF r.ret.success
             THEN /\ log_manager' = finish_logging(log_manager, r.ret.path)
                  /\ signals' = signals \o <<LogUpdated("summary"),
                                             Finished(TRUE, r.ret.path)>>
                  /\ worker' = [worker EXCEPT !.pc = "finished"]
                  /\ events' = events \o <<[op |-> "save_document", ret |-> r.ret],
                                            [op |-> "finish_logging"]>>
             ELSE /\ EmitFinished(FALSE, r.ret.path)
                  /\ events' = Append(events, [op |-> "save_document", ret |-> r.ret])
                  /\ UNCHANGED log_manager
    /\ UNCHANGED <<docFile, doc_processor, phase, calls, ret, segVars, winVars, response>>

\* MainWindow.stop_proofreading: worker.stop() while the thread runs
Stop ==
    /\ worker.pc \notin {"idle", "finished"}
    /\ worker.is_running
    /\ worker' = [worker EXCEPT !.is_running = FALSE]
    /\ events' = Append(events, [op |-> "stop", pc |-> worker.pc, i |-> worker.i])
    /\ UNCHANGED <<docVars, segVars, winVars, response, log_manager, signals>>

WorkerNext ==
    \/ RunLoad
    \/ RunSplit
    \/ RunLoopTest
    \/ Classify
    \/ RunHandle
    \/ RunSave
    \/ Stop

WorkerSpec == WorkerInit /\ [][WorkerNext]_vars

\* a step of run() other than the catalog pass: the thread started by
\* worker.start() keeps running, and each call returns (the request has
\* timeout=30)
RunStep == RunLoad \/ RunLoopTest \/ Classify \/ RunHandle \/ RunSave

\* weak fairness of RunSplit, with its enabling condition spelled out: RunSplit
\* is enabled exactly at pc "split" and every RunSplit step leaves that pc, so
\* WF_vars(RunSplit) says that the worker does not stay there for ever
SplitFair == []<>(worker.pc # "split")

WorkerLiveSpec == WorkerInit /\ [][WorkerNext]_vars /\ WF_vars(RunStep) /\ SplitFair

-----------------------------------------------------------------------------
(* WindowSpec: the MainWindow, the user and the worker threads.  The user    *)
(* acts on the window only while no modal dialog is open; a worker thread    *)
(* writes to the shared LogManager until it emits finished, which is queued  *)
(* for the GUI thread, and then returns.                                     *)

MaxRuns == 2
MaxWrites == 1

WindowInit ==
    /\ window = NewWindow
    /\ threads = << >>
    /\ queue = << >>
    /\ exports = {}
    /\ text = << >>
    /\ paraScan = NewScan
    /\ tableScan = NewScan
    /\ DocIdle
    /\ WorkerIdle

\* the window takes a click
TopLevel == window.dialogs = << >>

\* the user picks a file
SelectFile ==
    /\ TopLevel /\ window.select_file_button
    /\ ~window.file_path
    /\ window' = select_file(window)
    /\ UNCHANGED <<threads, queue, exports, segVars, docVars, workerVars>>

\* the user clicks the start button; worker.start() starts the thread
StartProofreading ==
    /\ TopLevel /\ window.start_button
    /\ Len(threads) < MaxRuns
    /\ \E valid \in BOOLEAN :
          /\ window' = start_proofreading(window, valid, Len(threads) + 1)
          /\ threads' = IF StartsWorker(window, valid)
                        THEN Append(threads, NewThread) ELSE threads
    /\ UNCHANGED <<queue, exports, segVars, docVars, workerVars>>

\* the user clicks the stop button: stop_proofreading
StopProofreading ==
    /\ TopLevel /\ window.stop_button
    /\ window.worker # 0 /\ window.is_proofreading
    /\ threads[window.worker].is_running
    /\ threads' = [threads EXCEPT ![window.worker].is_running = FALSE]
    /\ UNCHANGED <<window, queue, exports, segVars, docVars, workerVars>>

\* the user clicks the export button: show_export_dialog
ShowExportDialog ==
    /\ TopLevel /\ window.export_button
    /\ window' = OpenDialog(window, "export")
    /\ UNCHANGED <<threads, queue, exports, segVars, docVars, workerVars>>

\* the user confirms in the export dialog: exportRequested, MainWindow.export_logs
\* reads the LogManager and shows a message box
ExportLogs ==
    /\ window.dialogs # << >>
    /\ window.dialogs[Len(window.dialogs)] = "export"
    /\ exports' = exports \cup {[after |-> Len(threads), writing |-> InProgress(threads)]}
    /\ window' = [window EXCEPT !.dialogs =
                      SubSeq(@, 1, Len(@) - 1) \o <<"exported", "message">>]
    /\ UNCHANGED <<threads, queue, segVars, docVars, workerVars>>

\* the user closes the modal dialog on top
CloseDialog ==
    /\ window.dialogs # << >>
    /\ window' = [window EXCEPT !.dialogs = Closed(@)]
    /\ UNCHANGED <<threads, queue, exports, segVars, docVars, workerVars>>

\* a worker writes to the LogManager: start_logging, log_sentence, log_error,
\* finish_logging
ThreadWrite ==
    \E id \in 1..Len(threads) :
        /\ threads[id].pc = "run"
        /\ threads[id].writes < MaxWrites
        /\ threads' = [threads EXCEPT ![id].writes = @ + 1]
        /\ UNCHANGED <<window, queue, exports, segVars, docVars, workerVars>>

\* a worker emits finished: the signal is queued for the GUI thread
ThreadEmit ==
    \E id \in 1..Len(threads) :
        /\ threads[id].pc = "run"
        /\ threads' = [threads EXCEPT ![id].pc = "emitted"]
        /\ queue' = Append(queue, id)
        /\ UNCHANGED <<window, exports, segVars, docVars, workerVars>>

\* run() returns
ThreadReturn ==
    \E id \in 1..Len(threads) :
        /\ threads[id].pc = "emitted"
        /\ threads' = [threads EXCEPT ![id].pc = "returned"]
        /\ UNCHANGED <<window, queue, exports, segVars, docVars, workerVars>>

\* the event loop, the one of a modal dialog included, delivers finished to
\* proofreading_finished
DeliverFinished ==
    /\ queue # << >>
    /\ queue' = Tail(queue)
    /\ window' = proofreading_finished(window)
    /\ UNCHANGED <<threads, exports, segVars, docVars, workerVars>>

WindowNext ==
    \/ SelectFile
    \/ StartProofreading
    \/ StopProofreading
    \/ ShowExportDialog
    \/ ExportLogs
    \/ CloseDialog
    \/ ThreadWrite
    \/ ThreadEmit
    \/ ThreadReturn
    \/ DeliverFinished

WindowSpec == WindowInit /\ [][WindowNext]_vars

-----------------------------------------------------------------------------
(* Claims about annotation and the catalog, checked under Spec.              *)

\* the paragraph a catalog record belongs to
LocatorOf(position) ==
    IF position.type = "paragraph"
    THEN <<"paragraph", position.paragraph_index>>
    ELSE <<"table", position.table_index, position.row_index,
           position.cell_index, position.paragraph_index>>

\* the paragraph of doc at a locator
ParagraphAt(doc, loc) ==
    IF loc[1] = "paragraph" THEN doc.paragraphs[loc[2] + 1]
    ELSE doc.tables[loc[2] + 1][loc[3] + 1][loc[4] + 1][loc[5] + 1]

\* the locators of all paragraphs of doc
AllLocators(doc) ==
    {<<"paragraph", p - 1>> : p \in 1..Len(doc.paragraphs)}
    \cup UNION {UNION {UNION {
            {<<"table", t - 1, r - 1, c - 1, p - 1>> :
                 p \in 1..Len(doc.tables[t][r][c])} :
              c \in 1..Len(doc.tables[t][r])} :
            r \in 1..Len(doc.tables[t])} :
          t \in 1..Len(doc.tables)}

\* the numbers of paragraphs, tables, rows, cells and cell paragraphs, in order
Shape(doc) ==
    [paragraphs |-> Len(doc.paragraphs),
     tables |-> [t \in 1..Len(doc.tables) |->
                   [r \in 1..Len(doc.tables[t]) |->
                      [c \in 1..Len(doc.tables[t][r]) |->
                         Len(doc.tables[t][r][c])]]]]

CatalogBuilt == phase \in {"split", "saved"}

\* the paragraph a successful call wrote to
TargetOf(call) ==
    LocatorOf(PyIndex(doc_processor.sentence_positions, call.index))

\* the successful calls so far that wrote to the paragraph at loc
CallsOn(loc) == {i \in 1..Len(calls) : calls[i].ret /\ TargetOf(calls[i]) = loc}

CurrentText(loc) == ParagraphText(ParagraphAt(doc_processor.document, loc))

DistinctRecords ==
    \A i, j \in 1..Len(calls) :
        calls[i].index >= 0 /\ (i # j => calls[i].index # calls[j].index)

IsStyled(run) == run.color # "none" /\ run.bold /\ run.italic

\* C2: after k successful add_comment calls on records of one paragraph, the
\* paragraph holds k annotation runs that are styled (color, bold, italic), one
\* for each call.
C2_EveryAnnotationStyled ==
    DistinctRecords =>
    \A loc \in AllLocators(doc_processor.document) :
        LET para == ParagraphAt(doc_processor.document, loc) IN
        /\ Cardinality({k \in 1..Len(para) : IsStyled(para[k])})
             = Cardinality(CallsOn(loc))
        /\ \A i \in CallsOn(loc) :
             \E k \in 1..Len(para) :
                 para[k] = CommentRun(CommentText(calls[i].comment))

\* the paragraph at loc as one call with this comment writes it over the
\* loaded paragraph
AsWrittenBy(loc, comment_text) ==
    <<PlainRun(ParagraphText(ParagraphAt(docFile.content, loc))),
      PlainRun(<<" ">>), CommentRun(CommentText(comment_text))>>

\* a paragraph no call wrote to is as loaded; a paragraph one call wrote to is
\* as that call wrote it
C3_Untouched ==
    phase \in {"loaded", "split", "saved"} =>
        \A loc \in AllLocators(doc_processor.document) :
            /\ CallsOn(loc) = {} =>
                 ParagraphAt(doc_processor.document, loc)
                     = ParagraphAt(docFile.content, loc)
            /\ \A i \in CallsOn(loc) :
                 CallsOn(loc) = {i} =>
                     ParagraphAt(doc_processor.document, loc)
                         = AsWrittenBy(loc, calls[i].comment)

\* a step that is an add_comment call changes no paragraph but its target and
\* keeps the numbers of paragraphs, tables, rows and cells
C3_CallFrame ==
    Len(calls') = Len(calls) + 1 =>
        LET call == calls'[Len(calls')] IN
        /\ Shape(doc_processor'.document) = Shape(doc_processor.document)
        /\ \A loc \in AllLocators(doc_processor.document) :
             (~call.ret \/ loc # TargetOf(call)) =>
                 ParagraphAt(doc_processor'.document, loc)
                     = ParagraphAt(doc_processor.document, loc)

\* C3: add_comment changes only the paragraph its record belongs to: a paragraph
\* annotated by one call stays exactly as that call wrote it when other
\* paragraphs are annotated, and every call leaves all other paragraphs and the
\* structure of the document unchanged.
C3_OnlyTargetChanges == []C3_Untouched /\ [][C3_CallFrame]_vars

\* record A of a top-level paragraph, then record B of a table paragraph
C3_Witness ==
    /\ Len(calls) = 2
    /\ calls[1].ret /\ calls[2].ret
    /\ TargetOf(calls[1])[1] = "paragraph"
    /\ TargetOf(calls[2])[1] = "table"
    /\ ParagraphAt(doc_processor.document, TargetOf(calls[1]))
         = AsWrittenBy(TargetOf(calls[1]), calls[1].comment)

\* whether the paragraph of record a comes before that of record b in the
\* order: top-level paragraphs, then tables, rows, cells, cell paragraphs
ParagraphPrecedes(a, b) ==
    \/ a.type = "paragraph" /\ b.type = "table"
    \/ a.type = "paragraph" /\ b.type = "paragraph"
        /\ a.paragraph_index < b.paragraph_index
    \/ /\ a.type = "table" /\ b.type = "table"
       /\ \/ a.table_index < b.table_index
          \/ a.table_index = b.table_index /\ a.row_index < b.row_index
          \/ a.table_index = b.table_index /\ a.row_index = b.row_index
             /\ a.cell_index < b.cell_index
          \/ a.table_index = b.table_index /\ a.row_index = b.row_index
             /\ a.cell_index = b.cell_index
             /\ a.paragraph_index < b.paragraph_index

KindOf(loc) == IF loc[1] = "paragraph" THEN "paragraph" ELSE "table"

\* split_into_sentences has just returned
SplitReturned == phase = "split" /\ ret.op = "split_into_sentences"

\* C4: when split_into_sentences returns, the catalog lists the sentences of
\* the top-level paragraphs in document order, then those of the tables, row
\* by row, cell by cell, paragraph by paragraph; the records of one paragraph
\* are in increasing start offset and none is missing; sentences, the value
\* returned, has one entry for each record.
C4_CatalogOrder ==
    SplitReturned =>
        LET pos == doc_processor.sentence_positions IN
        /\ Len(doc_processor.sentences) = Len(pos)
        /\ ret.value = doc_processor.sentences
        /\ \A i, j \in 1..Len(pos) :
             i < j => \/ ParagraphPrecedes(pos[i], pos[j])
                      \/ /\ LocatorOf(pos[i]) = LocatorOf(pos[j])
                         /\ pos[i].start < pos[j].start
        /\ \A loc \in AllLocators(docFile.content) :
             Cardinality({i \in 1..Len(pos) : LocatorOf(pos[i]) = loc})
                 = Len(SegmentParagraph(
                           ParagraphText(ParagraphAt(docFile.content, loc)),
                           KindOf(loc)))

\* paragraphs P0 and P1 and a table of one cell holding P2, each with records
C4_Witness ==
    /\ SplitReturned
    /\ Len(docFile.content.paragraphs) = 2
    /\ docFile.content.tables = <<Table1x1>>
    /\ \E i, j, k \in 1..Len(doc_processor.sentence_positions) :
          /\ i < j /\ j < k
          /\ LocatorOf(doc_processor.sentence_positions[i]) = <<"paragraph", 0>>
          /\ LocatorOf(doc_processor.sentence_positions[j]) = <<"paragraph", 1>>
          /\ LocatorOf(doc_processor.sentence_positions[k]) = <<"table", 0, 0, 0, 0>>

\* the catalog agrees with itself and with the document
C5_CatalogConsistent ==
    CatalogBuilt =>
        LET pos == doc_processor.sentence_positions IN
        /\ Len(doc_processor.sentences) = Len(pos)
        /\ \A i \in 1..Len(pos) :
             /\ doc_processor.sentences[i] = pos[i].text
             /\ ~LocatorError(doc_processor.document, pos[i])
             /\ Strip(Slice(CurrentText(LocatorOf(pos[i])), pos[i].start, pos[i].end))
                  = pos[i].text

\* a step from a state with the catalog built leaves the catalog as it is
C5_CatalogKept ==
    CatalogBuilt =>
        /\ doc_processor'.sentences = doc_processor.sentences
        /\ doc_processor'.sentence_positions = doc_processor.sentence_positions

\* C5: once split_into_sentences has built the catalog, add_comment calls
\* (successful or failed) and save_document leave sentences and
\* sentence_positions as they are, sentences[i] is sentence_positions[i].text,
\* and index i resolves to the paragraph it was cut from.
C5_CatalogImmutable == []C5_CatalogConsistent /\ [][C5_CatalogKept]_vars

\* saved after a successful and a failed add_comment
C5_Witness ==
    /\ phase = "saved"
    /\ Len(calls) = 2
    /\ calls[1].ret /\ ~calls[2].ret
    /\ Len(doc_processor.sentence_positions) >= 2

-----------------------------------------------------------------------------
(* Claims about the segmentation of one paragraph text, checked under        *)
(* SegSpec.                                                                  *)

\* whether the ranges of cands, in order, tile [0, n)
Tiles(cands, n) ==
    /\ cands = << >> => n = 0
    /\ cands # << >> => cands[1].start = 0 /\ cands[Len(cands)].end = n
    /\ \A k \in 1..(Len(cands) - 1) : cands[k + 1].start = cands[k].end

\* start <= end for every record, and each record ends before the next starts
RecordsInOrder(recs) ==
    /\ \A k \in 1..Len(recs) : recs[k].start <= recs[k].end
    /\ \A k \in 1..(Len(recs) - 1) : recs[k].end <= recs[k + 1].start

IsRecordOrExcluded(c) == c.fate \in {"record", "excluded"}

ScanPartitionByExclusion(scan) ==
    scan.pc = "done" =>
        /\ Tiles(SelectSeq(scan.cands, IsRecordOrExcluded), Len(text))
        /\ RecordsInOrder(ScanRecords(scan))

\* C6 as claimed: for any paragraph text T, the ranges of the records and of
\* the candidates dropped by exclusion, in scan order, tile [0, len(T)), and
\* the records are in order without overlap.
C6_PartitionByExclusion ==
    ScanPartitionByExclusion(paraScan) /\ ScanPartitionByExclusion(tableScan)

ScanPartition(scan) ==
    /\ scan.pc = "loop" => Tiles(scan.cands, scan.current_pos)
    /\ scan.pc = "done" /\ Strip(text) # << >> => Tiles(scan.cands, Len(text))
    /\ scan.pc = "done" /\ Strip(text) = << >> => scan.cands = << >>
    /\ \A k \in 1..Len(scan.cands) :
         scan.cands[k].fate = "blank" =>
             k = Len(scan.cands) /\ scan.cands[k].last /\ scan.pc = "done"
    /\ RecordsInOrder(ScanRecords(scan))

\* C6 as amended: for a paragraph text T that is not blank, the ranges of the
\* records, of the candidates dropped by exclusion and of a blank rest of the
\* text (dropped because it strips to nothing, and always the last range), in
\* scan order, tile [0, len(T)); a blank T yields no range; the records are in
\* order without overlap.
C6_Partition == ScanPartition(paraScan) /\ ScanPartition(tableScan)

\* a record, an excluded candidate and a blank rest
C6_Witness ==
    /\ paraScan.pc = "done"
    /\ Len(paraScan.cands) = 3
    /\ paraScan.cands[1].fate = "record"
    /\ paraScan.cands[2].fate = "excluded"
    /\ paraScan.cands[3].fate = "blank"
    /\ paraScan.cands[3].end = Len(text)

FwTerminators == {FwStop, FwQuestion, FwBang}

\* sentences of ideographs, each ended by a full-width terminator, in a row
IsFwSentences(t) ==
    /\ t # << >>
    /\ \A k \in 1..Len(t) : t[k] \in HanChars \cup FwTerminators
    /\ t[1] \in HanChars
    /\ t[Len(t)] \in FwTerminators
    /\ \A k \in 1..(Len(t) - 1) : ~(t[k] \in FwTerminators /\ t[k + 1] \in FwTerminators)

\* the spans that end at the terminators of t
SpansAtTerminators(t) ==
    LET ends == {k \in 1..Len(t) : t[k] \in FwTerminators}
        StartOf(e) == IF \E k \in ends : k < e
                      THEN CHOOSE k \in ends : k < e /\ \A j \in ends : j < e => j <= k
                      ELSE 0
    IN {[start |-> StartOf(e), end |-> e, text |-> Slice(t, StartOf(e), e)] : e \in ends}

ScanSplitsAtTerminators(scan) ==
    scan.pc = "done" /\ IsFwSentences(text) =>
        LET recs == ScanRecords(scan) IN
        /\ {recs[k] : k \in 1..Len(recs)} = SpansAtTerminators(text)
        /\ Len(recs) = Cardinality(SpansAtTerminators(text))

\* C7: a paragraph text made of sentences that each end in a full-width
\* terminator, with nothing between them, yields one span for each sentence,
\* ending with its terminator, the spans covering the text.
C7_OneSpanPerSentence ==
    ScanSplitsAtTerminators(paraScan) /\ ScanSplitsAtTerminators(tableScan)

\* one sentence with a decimal number or with "Dr.", ended by any terminator
DecimalOrAbbreviationTexts ==
    {TextPrice \o <<c>> : c \in Terminators}
        \cup {TextDrSmith \o <<c>> : c \in Terminators}

ScanKeepsWholeSentence(scan) ==
    scan.pc = "done" /\ text \in DecimalOrAbbreviationTexts =>
        ScanRecords(scan) = <<[start |-> 0, end |-> Len(text), text |-> text]>>

\* C8: a paragraph text that is one sentence with a decimal number or the
\* abbreviation "Dr." in it yields exactly one record, the whole sentence,
\* whatever terminator ends it.
C8_WholeSentenceKept ==
    ScanKeepsWholeSentence(paraScan) /\ ScanKeepsWholeSentence(tableScan)

\* C9: a paragraph text yields the same (start, end, text) spans as a top-level
\* paragraph and as a paragraph of a table cell.
C9_SameSpansInBothLoops ==
    paraScan.pc = "done" /\ tableScan.pc = "done" =>
        ScanRecords(paraScan) = ScanRecords(tableScan)

-----------------------------------------------------------------------------
(* Claims about the worker, checked under WorkerSpec.                        *)

\* the answer is not a verdict: anything but status 200 with a JSON body whose
\* first choice parses to an object with the four fields
ClassificationFailed(resp) ==
    \/ resp.kind = "raises"
    \/ resp.kind = "http" /\ resp.status_code # 200
    \/ resp.kind = "http" /\ resp.body.kind = "not_json"
    \/ resp.kind = "http" /\ resp.body.kind = "json" /\ resp.body.choices = << >>
    \/ /\ resp.kind = "http" /\ resp.body.kind = "json" /\ resp.body.choices # << >>
       /\ LET json == JsonTextOf(resp.body.choices[1]) IN
            \/ ~json.valid
            \/ json.value.type # "object"
            \/ \E key \in Keys : key \notin DOMAIN json.value.fields

\* C10: whenever classifying sentence i has failed, the worker has logged the
\* failure for sentence i and gone on to sentence i + 1, and the run has not
\* ended with finished(False) for it.
C10_ClassificationFailureNonFatal ==
    ClassificationFailed(response) /\ worker.pc \in {"loop", "save", "finished"} =>
        /\ \A k \in 1..Len(signals) : signals[k] # Finished(FALSE, Msg("error"))
        /\ worker.i >= 1
        /\ log_manager.logs # << >>
        /\ log_manager.logs[Len(log_manager.logs)].is_process_error
        /\ log_manager.logs[Len(log_manager.logs)].sentence
               = doc_processor.sentences[worker.i]

\* the calls the worker has made so far with operation op
EventsOf(op) == {k \in 1..Len(events) : events[k].op = op}

\* the finished signals emitted so far
FinishedSignals == {k \in 1..Len(signals) : signals[k].signal = "finished"}

\* load_document has been called on a file that does not open
LoadFailed == ~docFile.readable /\ EventsOf("load_document") # {}

\* save_document has been called and document.save has raised
SaveFailed ==
    \E k \in EventsOf("save_document") : ~events[k].ret.success

\* C11: after load_document has failed the worker has made no other call (no
\* split, no classification, no annotation, no save) and has emitted just
\* finished(False, ...); after save_document has failed the worker has emitted
\* finished(False, ...) and neither finished(True, ...) nor the summary, and
\* has not finished the log.
C11_StorageFailureFatal ==
    /\ LoadFailed =>
          /\ \A k \in 1..Len(events) : events[k].op \in {"load_document", "stop"}
          /\ doc_processor = NewDocProcessor
          /\ response.kind = "none"
          /\ worker.pc = "finished"
          /\ signals = <<Finished(FALSE, Msg("load_failed"))>>
    /\ SaveFailed =>
          /\ worker.pc = "finished"
          /\ Cardinality(FinishedSignals) = 1
          /\ \A k \in FinishedSignals : ~signals[k].ok /\ k = Len(signals)
          /\ \A k \in 1..Len(signals) :
                signals[k].signal = "logUpdated" => signals[k].kind # "summary"
          /\ EventsOf("finish_logging") = {}

\* a save that fails after a sentence has been annotated
C11_Witness ==
    /\ SaveFailed
    /\ EventsOf("add_comment") # {}
    /\ worker.pc = "finished"

\* ---- cancellation ----

\* the sentence whose is_running test is the first one after the stop() of
\* event k: the sentence in hand while a call or its handling is in flight,
\* the next one to start otherwise
NextTest(k) ==
    IF events[k].pc \in {"request", "handle"} THEN events[k].i + 1 ELSE events[k].i

\* the worker has seen is_running == False and emitted "stopped"
Cancelled == \E k \in 1..Len(signals) : signals[k] = Finished(FALSE, Msg("stopped"))

\* the sentence indices of the events of one operation after event k
IndicesAfter(k, op) == {events[j].i : j \in {n \in EventsOf(op) : n > k}}

\* a stop() during a classification call leaves the call running: it returns
\* for the same sentence
InFlightCompleted(k) ==
    events[k].pc = "request" =>
        IF k = Len(events)
        THEN worker.pc = "request"
        ELSE /\ events[k + 1].op = "proofread_sentence"
             /\ events[k + 1].i = events[k].i

\* after the stop() of event k only the sentence in flight is classified and
\* annotated, and with a sentence left to test there is no save
NothingPastNextTest(k) ==
    /\ \A i \in IndicesAfter(k, "proofread_sentence") : i < NextTest(k)
    /\ \A i \in IndicesAfter(k, "add_comment") : i < NextTest(k)
    /\ NextTest(k) < Len(doc_processor.sentences) =>
          /\ EventsOf("save_document") = {}
          /\ \A n \in FinishedSignals : ~signals[n].ok

C12_CooperativeFlag ==
    /\ \A k \in EventsOf("stop") : InFlightCompleted(k) /\ NothingPastNextTest(k)
    /\ Cancelled =>
          /\ worker.pc = "finished"
          /\ ~worker.is_running
          /\ signals[Len(signals)] = Finished(FALSE, Msg("stopped"))
          /\ Cardinality(FinishedSignals) = 1
          /\ EventsOf("save_document") = {}
          /\ outFiles \in {NoOutFiles, OldOutFiles, OlderOutFiles}

\* C12: cancellation is a flag tested at the head of each sentence: a
\* classification call in flight when stop() is called still returns; after the
\* worker has seen the flag cleared there is no add_comment and no
\* save_document, the run ends with finished(False, ...), and from then on no
\* step changes anything
C12_Cancellation ==
    /\ []C12_CooperativeFlag
    /\ [][Cancelled => UNCHANGED vars]_vars

\* a run cancelled after a stop() that arrived during the classification of a
\* sentence which was then annotated
C12_Witness ==
    /\ Cancelled
    /\ \E k \in EventsOf("stop") :
          /\ events[k].pc = "request"
          /\ \E j \in EventsOf("add_comment") : j > k /\ events[j].i = events[k].i

\* stop() was called while the worker was classifying or annotating a sentence
StoppedInFlight == \E k \in EventsOf("stop") : events[k].pc \in {"request", "handle"}

\* C13: a stop() that arrives while any sentence, the first to the last, is
\* being classified or annotated ends the run with finished(False, ...) and
\* without a save of the document
C13_StopAlwaysCancels ==
    (StoppedInFlight /\ worker.pc = "finished") =>
        /\ \A n \in FinishedSignals : ~signals[n].ok
        /\ EventsOf("save_document") = {}
        /\ outFiles \in {NoOutFiles, OldOutFiles, OlderOutFiles}

\* ---- the classifier's answer ----

\* a JSON object that has the four fields
HasFourFields(value) == value.type = "object" /\ Keys \subseteq DOMAIN value.fields

\* proofread_sentence has returned for the sentence in hand
Classified == worker.pc = "handle"

\* C14: proofread_sentence returns (True, result) only for a JSON object with
\* the fields content_0, wrong, annotation and content_1; a response of any
\* other JSON type, or an object lacking a field, is returned as
\* (False, message)
C14_SuccessOnlyWithFourFields ==
    Classified =>
        /\ worker.success => HasFourFields(worker.result)
        /\ ~worker.success => worker.result.type = "message"

\* ---- annotation on a positive verdict ----

\* the values of "wrong" that Python takes for false
FalseValues == {JBool(FALSE), JNull, JString(<< >>), JArray(<< >>)}

\* the call of event k succeeded and its result says the sentence is wrong
PositiveVerdict(k) ==
    /\ events[k].success
    /\ HasFourFields(events[k].result)
    /\ events[k].result.fields.wrong \notin FalseValues

\* the events from the classification of event k up to the next classification
Turn(k) == {j \in k..Len(events) :
               \A n \in EventsOf("proofread_sentence") : n <= k \/ n > j}

\* the add_comment calls made for the classification of event k
CommentsOf(k) == Turn(k) \cap EventsOf("add_comment")

\* the result of the classification of event k has been handled
Handled(k) ==
    \E j \in Turn(k) : events[j].op \in {"add_comment", "log_sentence", "log_error",
                                            "proofread_sentence"} /\ j > k

\* C15: add_comment(i, annotation) is called exactly when the classification
\* of sentence i succeeded with a positive verdict: once, with the index i and
\* the annotation of the result, after the classification of i returns and
\* before that of the next sentence starts; no other add_comment is made
C15_AnnotateIffPositive ==
    /\ \A k \in EventsOf("proofread_sentence") :
          /\ \A j \in CommentsOf(k) :
                /\ PositiveVerdict(k)
                /\ events[j].i = events[k].i
                /\ events[j].comment = Str(events[k].result.fields.annotation)
          /\ Cardinality(CommentsOf(k)) <= 1
          /\ (PositiveVerdict(k) /\ (Handled(k) \/ worker.pc \in {"loop", "save", "finished"}))
                => CommentsOf(k) # {}
    /\ \A j \in EventsOf("add_comment") :
          /\ \E k \in EventsOf("proofread_sentence") : j \in CommentsOf(k)
          /\ \A n \in EventsOf("add_comment") : events[n].i = events[j].i => n = j

\* a run that classified two sentences, annotated the first and not the second
C15_Witness ==
    \E k, n \in EventsOf("proofread_sentence") :
        /\ k < n
        /\ PositiveVerdict(k) /\ CommentsOf(k) # {}
        /\ events[n].success /\ ~PositiveVerdict(n) /\ Handled(n)

\* ---- the order of a run ----

\* the stage of run() an operation belongs to
StageOf(op) ==
    CASE op = "load_document" -> 1
      [] op = "split_into_sentences" -> 2
      [] op = "start_logging" -> 3
      [] op \in {"proofread_sentence", "add_comment", "log_sentence", "log_error"} -> 4
      [] op = "save_document" -> 5
      [] op = "finish_logging" -> 6

\* the calls made by run(), stop() left out
RunEvents == {k \in 1..Len(events) : events[k].op # "stop"}

\* the k-th classification is that of sentence k - 1, of the catalog as built
ClassifiedInOrder ==
    \A k \in EventsOf("proofread_sentence") :
        LET i == Cardinality({n \in EventsOf("proofread_sentence") : n < k}) IN
        /\ events[k].i = i
        /\ i < Len(doc_processor.sentences)
        /\ events[k].sentence = doc_processor.sentences[i + 1]

\* every sentence of the catalog has been classified and its result handled
AllProcessed ==
    /\ Cardinality(EventsOf("proofread_sentence")) = Len(doc_processor.sentences)
    /\ \A k \in EventsOf("proofread_sentence") : Handled(k)

\* C16: a run goes load, catalog, classify/annotate loop, save, done: in a
\* run whose load succeeded split_into_sentences is called once, before any
\* classification; the sentences are classified one at a time in increasing
\* catalog index, each at most once; save_document is called at most once and
\* after every sentence has been processed; finished(True, path) is emitted
\* only after a successful save, with the path of that save
C16_SequentialOrder ==
    /\ \A k, n \in RunEvents : k < n => StageOf(events[k].op) <= StageOf(events[n].op)
    /\ \A op \in {"load_document", "split_into_sentences", "start_logging",
                    "save_document", "finish_logging"} : Cardinality(EventsOf(op)) <= 1
    /\ (worker.pc \notin {"load", "split"} /\ ~LoadFailed) =>
          Cardinality(EventsOf("split_into_sentences")) = 1
    /\ LoadFailed => EventsOf("split_into_sentences") = {}
    /\ ClassifiedInOrder
    /\ EventsOf("save_document") # {} => AllProcessed
    /\ \A n \in FinishedSignals :
          signals[n].ok =>
              /\ n = Len(signals)
              /\ \E k \in EventsOf("save_document") :
                    events[k].ret = [success |-> TRUE, path |-> signals[n].message]
              /\ Exists(outFiles, signals[n].message)

\* a run of two sentences that ended with finished(True, path)
C16_Witness ==
    /\ Len(doc_processor.sentences) = 2
    /\ \E n \in FinishedSignals : signals[n].ok

\* ---- an empty catalog ----

\* the document was loaded, the catalog was built and is empty, and stop() was
\* not called
EmptyCatalogRun ==
    /\ \E k \in EventsOf("load_document") : events[k].ret
    /\ EventsOf("split_into_sentences") # {}
    /\ doc_processor.sentences = << >>
    /\ EventsOf("stop") = {}

\* C17: a run on a document that loads and whose catalog is empty goes on to
\* the save and ends with finished(True, path) and a summary of 0 sentences
\* flagged out of 0
C17_EmptyCatalogCompletes ==
    EmptyCatalogRun =>
        /\ worker.pc \in {"save", "finished"}
        /\ \A n \in FinishedSignals : signals[n].ok \/ SaveFailed
        /\ (worker.pc = "finished" /\ ~SaveFailed) =>
              /\ \E n \in 1..Len(signals) : signals[n] = LogUpdated("summary")
              /\ log_manager.ended
              /\ log_manager.total_count = 0
              /\ log_manager.error_count = 0

\* ---- an index that does not resolve ----

\* the step is a call of add_comment
AddCommentCalled == Len(calls') = Len(calls) + 1

\* the index of the call is not one of 0 .. len(sentence_positions) - 1, or
\* the position of its record does not resolve in the document
DoesNotResolve(self, sentence_index) ==
    \/ sentence_index \notin 0..(Len(self.sentence_positions) - 1)
    \/ LocatorError(self.document, self.sentence_positions[sentence_index + 1])

\* C18: add_comment with an index outside 0 .. len(sentence_positions) - 1,
\* a negative one included, or with a position that does not resolve to a
\* paragraph, returns False and leaves every paragraph unchanged
C18_UnresolvedIndexFails ==
    [][(AddCommentCalled /\ DoesNotResolve(doc_processor, calls'[Len(calls')].index))
          => /\ ~calls'[Len(calls')].ret
             /\ doc_processor'.document = doc_processor.document]_vars

\* ---- the output path ----

\* the step is a call of save_document that returned (True, path)
SaveSucceeded ==
    /\ worker.pc = "save"
    /\ worker'.pc = "finished"
    /\ signals'[Len(signals')].ok

\* the path returned by that call
SavedPath == signals[Len(signals)].message

\* C19: the output path derived by save_document does not exist before the
\* write, whatever files exist, the default path and a path stamped in the
\* same second included: no existing file is overwritten
C19_NoCollision ==
    [][SaveSucceeded =>
          /\ ~Exists(outFiles, SavedPath')
          /\ outFiles \subseteq outFiles']_vars

\* a name of the input file's stem "a.b", a suffix, and the extension ".docx"
NameWith(suffix) == <<"a", ".", "b">> \o suffix \o <<".", "d", "o", "c", "x">>

\* _YYYYMMDDHHMMSS: an underscore and fourteen digits
IsTimestamp(chars) ==
    /\ Len(chars) = 15
    /\ chars[1] = "_"
    /\ \A k \in 2..15 : \E d \in 1..10 : chars[k] = DigitChars[d]

\* name is the input file's name with the suffix and a timestamp before the
\* extension
IsStampedName(name, suffix) ==
    /\ Len(name) = Len(NameWith(suffix)) + 15
    /\ SubSeq(name, 1, 3 + Len(suffix)) = <<"a", ".", "b">> \o suffix
    /\ IsTimestamp(SubSeq(name, 4 + Len(suffix), 18 + Len(suffix)))
    /\ SubSeq(name, 19 + Len(suffix), Len(name)) = <<".", "d", "o", "c", "x">>

\* a save step wrote the document to the returned path, which lies in the
\* directory of the input file and is named with the suffix: plainly when no
\* such file existed, with a timestamp before the extension when one did
SavesUnder(suffix) ==
    SaveSucceeded =>
        LET plain == [kind |-> "path", dir |-> "docs", name |-> NameWith(suffix)] IN
        /\ SavedPath'.kind = "path"
        /\ SavedPath'.dir = "docs"
        /\ IF Exists(outFiles, plain)
           THEN IsStampedName(SavedPath'.name, suffix)
           ELSE SavedPath' = plain
        /\ [path |-> SavedPath', content |-> doc_processor.document] \in outFiles'
        /\ \A f \in outFiles' : f.path # SavedPath' => f \in outFiles

\* C20, as stated: with no explicit path save_document writes to
\* <name>_proofed<ext> in the directory of the input file when that path does
\* not exist, and to <name>_proofed_YYYYMMDDHHMMSS<ext> when it does; the
\* returned path is the path written
C20_ProofedSuffix == [][SavesUnder(<<"_", "p", "r", "o", "o", "f", "e", "d">>)]_vars

\* C20, with the suffix of the code: the names are <name>_AI<U+6821><U+5BF9><ext>
\* and <name>_AI<U+6821><U+5BF9>_YYYYMMDDHHMMSS<ext>
C20_OutputPath == [][SavesUnder(<<"_", "A", "I", "han_jiao", "han_dui">>)]_vars

\* a save that found the default path taken and wrote to a stamped path
C20_Witness ==
    /\ worker.pc = "finished"
    /\ \E n \in FinishedSignals :
          /\ signals[n].ok
          /\ IsStampedName(signals[n].message.name, <<"_", "A", "I", "han_jiao", "han_dui">>)
          /\ Exists(outFiles, signals[n].message)

\* ---- the run summary ----

\* the run was completed: finish_logging built its summary
Completed == EventsOf("finish_logging") # {}

\* the classifications whose result the worker has handled
ProcessedSentences == {k \in EventsOf("proofread_sentence") : Handled(k)}

\* C21: at the end of a completed run total_count is the number of sentences
\* the worker processed, with a classification that succeeded or failed, and
\* error_count is the number of sentences with a positive verdict; always
\* error_count <= total_count
C21_SummaryCounts ==
    /\ log_manager.error_count <= log_manager.total_count
    /\ Completed =>
          /\ log_manager.total_count = Cardinality(ProcessedSentences)
          /\ log_manager.error_count =
                Cardinality({k \in ProcessedSentences : PositiveVerdict(k)})

\* ---- the fragments an annotation writes ----

\* "[" U+6821 U+5BF9 U+5EFA U+8BAE ": " annotation "]"
Wrapped(annotation) ==
    <<"[", "han_jiao", "han_dui", "han_jian", "han_yi", ":", " ">> \o annotation \o <<"]">>

\* the three fragments: the text plain, a space plain, the wrapped annotation
\* blue, bold and italic
ThreeFragments(before, annotation) ==
    <<[text |-> before, color |-> "none", bold |-> FALSE, italic |-> FALSE],
      [text |-> <<" ">>, color |-> "none", bold |-> FALSE, italic |-> FALSE],
      [text |-> Wrapped(annotation), color |-> "0000FF", bold |-> TRUE, italic |-> TRUE]>>

\* a step that is a successful add_comment leaves in the target paragraph the
\* three fragments made of the paragraph's text before the step
WritesThreeFragments ==
    (AddCommentCalled /\ calls'[Len(calls')].ret) =>
        LET call == calls'[Len(calls')]
            before == CurrentText(TargetOf(call))
        IN
        /\ ParagraphAt(doc_processor'.document, TargetOf(call))
              = ThreeFragments(before, call.comment)
        /\ ParagraphText(ParagraphAt(doc_processor'.document, TargetOf(call)))
              = before \o <<" ">> \o Wrapped(call.comment)

DroppedByPattern(scan) ==
    {k \in 1..Len(scan.cands) :
        /\ ~scan.cands[k].last
        /\ MatchesExcludePattern(Strip(Slice(text, scan.cands[k].start,
                                              scan.cands[k].end)))}

\* a dropped candidate gives no record, the cursor is at its end, the next
\* candidate starts there, and no record overlaps it
DropsNotMerges(scan) ==
    \A k \in DroppedByPattern(scan) :
        /\ ~IsRecord(scan.cands[k])
        /\ IF k = Len(scan.cands)
           THEN scan.current_pos = scan.cands[k].end
           ELSE scan.cands[k + 1].start = scan.cands[k].end
        /\ \A j \in 1..Len(scan.cands) :
              IsRecord(scan.cands[j]) =>
                  \/ scan.cands[j].end <= scan.cands[k].start
                  \/ scan.cands[j].start >= scan.cands[k].end

\* C23: a candidate [cursor, e) ended by a boundary whose text matches a
\* pattern of the exclusion set anywhere gives no record; the cursor advances
\* to e and the next candidate starts at e, so no character of it is part of
\* any record
C23_ExclusionDrops == DropsNotMerges(paraScan) /\ DropsNotMerges(tableScan)

\* a record, a dropped candidate and a record after it, in both loops
C23_Witness ==
    /\ tableScan.pc = "done"
    /\ \E k \in DroppedByPattern(paraScan) :
          /\ 1 < k /\ k < Len(paraScan.cands)
          /\ IsRecord(paraScan.cands[k - 1]) /\ IsRecord(paraScan.cands[k + 1])
    /\ \E k \in DroppedByPattern(tableScan) :
          /\ 1 < k /\ k < Len(tableScan.cands)
          /\ IsRecord(tableScan.cands[k - 1]) /\ IsRecord(tableScan.cands[k + 1])

\* ---- the rest of the text ----

\* the rest of the text, taken when no boundary is found, gives no record when
\* the exclusion rules of the loop reject its text
RemainderFiltered(scan, kind) ==
    \A k \in 1..Len(scan.cands) :
        (scan.cands[k].last
           /\ IsExcluded(kind, Strip(Slice(text, scan.cands[k].start, Len(text)))))
            => ~IsRecord(scan.cands[k])

\* C24: when no boundary is found the rest [cursor, len(text)) is a last
\* candidate to which the exclusion rules apply: a rest whose text matches an
\* exclusion pattern, or is shorter than the minimum length and ends in ".",
\* gives no record, as a candidate ended by a boundary would
C24_RemainderExcluded ==
    RemainderFiltered(paraScan, "paragraph") /\ RemainderFiltered(tableScan, "table")

\* ---- the result signal ----

\* run() has returned
Returned == worker.pc = "finished"

\* finished is emitted at most once, it is the last signal, and it has been
\* emitted exactly when run() has returned
OneResult ==
    /\ Cardinality(FinishedSignals) <= 1
    /\ \A n \in FinishedSignals : n = Len(signals)
    /\ Returned <=> FinishedSignals # {}

\* after the result signal the worker changes neither the document, nor the
\* files, nor the log, and emits nothing
QuietAfterResult ==
    FinishedSignals # {} =>
        UNCHANGED <<doc_processor, outFiles, log_manager, signals>>

\* C25: every execution of run() emits finished(success, message) exactly
\* once, on every path, and after it the worker mutates no document, writes no
\* log and emits no signal
C25_OneResultSignal ==
    /\ []OneResult
    /\ [][QuietAfterResult]_vars
    /\ <>Returned

\* a run that ended by the exception handler, after an annotation
C25_Witness ==
    /\ Returned
    /\ signals[Len(signals)] = Finished(FALSE, Msg("error"))
    /\ EventsOf("add_comment") # {}

\* ---- what add_comment reports ----

\* the annotation of the add_comment call of event k is in its paragraph
AnnotationWritten(k) ==
    Contains(CurrentText(LocatorOf(doc_processor.sentence_positions[events[k].i + 1])),
             CommentText(events[k].comment))

\* the log entries of sentences logged as annotated in the document
LoggedAsAnnotated == {n \in 1..Len(log_manager.logs) : log_manager.logs[n].has_error}

\* C26: add_comment returns True only when the annotation was written to the
\* paragraph, and False whenever the write of the paragraph fails; a sentence
\* is logged as annotated and counted in error_count only if its annotation is
\* in the document
C26_SuccessMeansWritten ==
    /\ \A k \in EventsOf("add_comment") : events[k].ret => AnnotationWritten(k)
    /\ EventsOf("start_logging") # {} =>
          /\ Cardinality(LoggedAsAnnotated)
                <= Cardinality({k \in EventsOf("add_comment") : AnnotationWritten(k)})
          /\ log_manager.error_count
                <= Cardinality({k \in EventsOf("add_comment") : AnnotationWritten(k)})

\* ---- offsets under annotation ----

\* the text of the record's paragraph, cut at the record's offsets and
\* stripped, is the record's text
OffsetsValid ==
    CatalogBuilt =>
        \A i \in 1..Len(doc_processor.sentence_positions) :
            LET r == doc_processor.sentence_positions[i] IN
            Strip(Slice(CurrentText(LocatorOf(r)), r.start, r.end)) = r.text

\* an add_comment step keeps the text of every paragraph as a prefix of its
\* new text
AppendsOnly ==
    AddCommentCalled =>
        \A loc \in AllLocators(doc_processor.document) :
            LET before == CurrentText(loc)
                after == ParagraphText(ParagraphAt(doc_processor'.document, loc))
            IN Len(before) <= Len(after) /\ SubSeq(after, 1, Len(before)) = before

\* C27: after any add_comment calls on any records the text of each record's
\* paragraph, cut at [start, end) and stripped, is still the record's text:
\* an annotation is appended behind the text and nothing is inserted in it or
\* deleted from it
C27_OffsetsStayValid == []OffsetsValid /\ [][AppendsOnly]_vars

\* two annotated records of one paragraph, the second not at offset 0
C27_Witness ==
    /\ Len(calls) = 2
    /\ calls[1].ret /\ calls[2].ret
    /\ calls[1].index = 0 /\ calls[2].index = 1
    /\ TargetOf(calls[1]) = TargetOf(calls[2])
    /\ doc_processor.sentence_positions[2].start > 0

\* ---- the log of the last run ----

\* the path a save of this run returned
SavedByThisRun(path) ==
    \E k \in EventsOf("save_document") :
        events[k].ret.success /\ events[k].ret.path = path

\* C28: after runs that completed, were cancelled or failed, what
\* get_log_summary and export_logs report belongs to one run, the last one
\* that logged: an end_time that is set was set by the run that set
\* start_time, and save_path is not the output path of an earlier run
C28_LogOfOneRun ==
    (Returned /\ EventsOf("start_logging") # {}) =>
        LET summary == get_log_summary(log_manager) IN
        /\ summary.start_time
        /\ summary.end_time => Completed
        /\ summary.save_path # NoPath => SavedByThisRun(summary.save_path)

\* ---- one worker at a time ----

\* no worker is before its finished signal
NoRunInProgress == InProgress(threads) = {}

\* a finished signal has been handled and no run was started since
BetweenRuns ==
    /\ NoRunInProgress
    /\ threads # << >>
    /\ queue = << >>
    /\ ~window.is_proofreading

OneWorker ==
    /\ Cardinality(InProgress(threads)) <= 1
    /\ \A e \in exports : e.writing = {}
    /\ window.start_button => NoRunInProgress
    /\ window.export_button => BetweenRuns
    /\ (\E n \in 1..Len(window.dialogs) : window.dialogs[n] = "export") => BetweenRuns
    /\ window.is_proofreading <=> (~NoRunInProgress \/ queue # << >>)

\* a step that starts a worker is taken with no run in progress
StartsWhenIdle == Len(threads') > Len(threads) => NoRunInProgress

\* C29: at most one worker is before its finished signal at any time, and
\* export_logs never reads the LogManager while a worker still writes to it:
\* a run is started only when none is in progress, and export is enabled only
\* between the handling of a finished signal and the next start, whatever the
\* order of start, stop, export and the workers' signals
C29_OneWorkerNoExportRace == []OneWorker /\ [][StartsWhenIdle]_vars

\* a second run in progress after an export of the first run's log
C29_Witness ==
    /\ Len(threads) = 2
    /\ threads[1].writes > 0
    /\ \E e \in exports : e.after = 1
    /\ InProgress(threads) = {2}
    /\ ~threads[2].is_running


-----------------------------------------------------------------------------
\* C30: segmentation of a paragraph always terminates: a boundary match
\* consumes at least one character, so an iteration of a scan loop either
\* strictly increases the cursor or leaves the loop, a loop makes at most
\* len(text) iterations, and both loops are eventually done.
ScanAdvances(scan) ==
    scan.pc = "loop" /\ scan' # scan
        => scan'.pc = "done" \/ scan'.current_pos > scan.current_pos

ScanBounded(scan) ==
    /\ Len(scan.cands) <= Len(text)
    /\ scan.current_pos <= Len(text)

ScansDone == paraScan.pc = "done" /\ tableScan.pc = "done"

C30_SegmentationTerminates ==
    /\ [][ScanAdvances(paraScan) /\ ScanAdvances(tableScan)]_vars
    /\ [](ScanBounded(paraScan) /\ ScanBounded(tableScan))
    /\ <>[]ScansDone

\* both loops are done after three iterations each, two that moved the cursor
\* past a boundary match and one that took the rest of the text
C30_Witness ==
    /\ ScansDone
    /\ Len(paraScan.cands) = 3 /\ Len(tableScan.cands) = 3
    /\ ~paraScan.cands[1].last /\ ~paraScan.cands[2].last
    /\ paraScan.cands[3].last

====
